---- MODULE Spec2Model ----
(***************************************************************************)
(* Mohnitor hub coordination: leader election over a lock file             *)
(* (devui/election.py), hub discovery (devui/discovery.py) and the start-up *)
(* flow that combines them (devui/mohnitor.py).                             *)
(*                                                                         *)
(* Every process is one OS process.  The state shared between processes is *)
(* the lock file, the descriptor file, the TCP ports of the machine and    *)
(* the liveness of pids.  One action is one system call on that shared     *)
(* state together with the local computation that follows it.              *)
(* The two port scans (bind probe, health probe) are one step each: the    *)
(* only event that changes a port during a run is the death of the one     *)
(* running hub, and a scan interleaved with that single event returns what *)
(* a scan taken wholly before or wholly after it returns.                  *)
(*                                                                         *)
(* The second part is the hub session (devui/hub.py) with the batcher and  *)
(* the serialization cache it uses (devui/performance.py): one hub object  *)
(* built inside a running event loop, producer sockets and viewer sockets. *)
(* One action is the code a coroutine runs between two suspension points.  *)
(*                                                                         *)
(* The third part is the forwarding handler of an application              *)
(* (devui/client.py): the bounded queue that emit fills and the sender     *)
(* thread that drains it into a producer socket of the hub.                *)
(***************************************************************************)
EXTENDS Integers, FiniteSets, Sequences, TLC

VARIABLES
    lock,        \* /tmp/mohnitor/hub.lock
    desc,        \* /tmp/mohnitor/hub.json
    hubAlive,    \* the hub process that ran before the modelled ones lives
    hubPort,     \* the port that hub listens on while it lives
    unbindable,  \* ports on which bind() fails with OSError
    remoteUp,    \* the host named by a remote override answers /healthz
    pc,          \* per process: position in the code
    cfg,         \* per process: entry point, arguments and environment
    el,          \* per process: locals of try_become_hub
    di,          \* per process: locals of discover_hub
    en,          \* per process: locals of enable_mohnitor
    lock0,       \* the lock file before any process ran
    raced,       \* every process was inside try_become_hub at one moment
    hub,              \* MohnitorHub: host, token, buffer_size
    event_buffer,     \* MohnitorHub.event_buffer
    dropped_events,   \* MohnitorHub.dropped_events
    connections,      \* MohnitorHub.connections: connection_id -> ClientConnection
    websockets,       \* MohnitorHub.websockets: connection_id -> producer socket
    ui_websockets,    \* MohnitorHub.ui_websockets
    pending_messages, \* message_batcher.pending_messages
    flush_tasks,      \* _send_batch tasks created and not yet run
    event_cache,      \* event_cache: cache and access_order
    prod,             \* per producer socket: state of its endpoint coroutine
    view,             \* per viewer socket: state of its endpoint coroutine
    arrived,          \* every event that reached the ring-buffer step, in order
    owed,             \* per viewer: the events ingested while it was connected
    handler,          \* per process: its MohnitorForwardingHandler
    clock,            \* message_batcher: time since last_batch_time, timer sleep
    roundtrip,        \* a LogEvent on its way through to_dict and from_dict
    batcher,          \* a MessageBatcher with a subscriber, on its own
    lru               \* a LogEventCache on its own, with what was last put

coordVars == <<lock, desc, hubAlive, hubPort, unbindable, remoteUp,
               pc, cfg, el, di, en, lock0, raced>>

hubVars == <<hub, event_buffer, dropped_events, connections, websockets,
             ui_websockets, pending_messages, flush_tasks, event_cache,
             prod, view, arrived, owed>>

(* The hub session without the hub object. *)
sessionVars == <<event_buffer, dropped_events, connections, websockets,
                 ui_websockets, pending_messages, flush_tasks, event_cache,
                 prod, view, arrived, owed>>

(* What neither the coordination part nor the hub session owns. *)
pureVars == <<roundtrip, batcher, lru>>
extVars == <<handler, clock, pureVars>>

vars == <<lock, desc, hubAlive, hubPort, unbindable, remoteUp,
          pc, cfg, el, di, en, lock0, raced,
          hub, event_buffer, dropped_events, connections, websockets,
          ui_websockets, pending_messages, flush_tasks, event_cache,
          prod, view, arrived, owed, handler, clock, roundtrip, batcher, lru>>

---------------------------------------------------------------------------
(* Bounds and program constants *)

NumProcs == 2
NumLateApps == 1

DefaultBasePort == 17361
PortRange == 20
MinPort == 1024
MaxPort == 65535

Procs == 1 .. NumProcs
HubPid == NumProcs + 1
DeadPid == NumProcs + 2
(* The applications that start after the hub process in Scenario B. *)
LateApps == {p \in Procs : p <= NumLateApps}

LOOPBACK == "127.0.0.1"
(* The (host, base_port) arguments of a direct call of try_become_hub: the  *)
(* defaults, and a base port below the ports a descriptor accepts.         *)
Args == {<<LOOPBACK, DefaultBasePort>>, <<LOOPBACK, 1000>>}
DefaultPorts == DefaultBasePort .. (DefaultBasePort + PortRange - 1)

---------------------------------------------------------------------------
(* Files.  ino tells two files at the same path apart: a file created by   *)
(* process p has ino p, a file that was there before any process ran has   *)
(* ino 0.  pid 0 in a lock file: no readable pid (empty or not JSON).      *)

NoLock == [exists |-> FALSE, ino |-> 0, pid |-> 0]
LockOf(i, p) == [exists |-> TRUE, ino |-> i, pid |-> p]

NoDesc ==
    [kind |-> "absent", ino |-> 0, host |-> "", port |-> 0, pid |-> 0, token |-> 0]
EmptyDesc(i) ==
    [kind |-> "empty", ino |-> i, host |-> "", port |-> 0, pid |-> 0, token |-> 0]
GarbageDesc(i) ==
    [kind |-> "garbage", ino |-> i, host |-> "", port |-> 0, pid |-> 0, token |-> 0]
JsonDesc(i, h, po, pi, t) ==
    [kind |-> "json", ino |-> i, host |-> h, port |-> po, pid |-> pi, token |-> t]

(* os.kill(pid, 0) / psutil.pid_exists(pid) *)
_is_pid_alive(pid) ==
    \/ pid \in Procs
    \/ pid = HubPid /\ hubAlive

(* A hub answers GET /healthz on the port with status 200. *)
Healthy(port) == hubAlive /\ port = hubPort

(* socket.bind((host, port)) succeeds. *)
CanBind(port) == port \notin unbindable /\ ~Healthy(port)

---------------------------------------------------------------------------
(* HubDescriptor.__post_init__ *)

_validate_host(h) == h \in {LOOPBACK, "localhost", "0.0.0.0", "10.0.0.5"}

_validate_port(po) == po >= MinPort /\ po <= MaxPort

_validate_pid(pi) == pi > 0

_validate_token_for_remote(h, t) == ~(h \notin {LOOPBACK, "localhost"} /\ t = 0)

HubDescriptor(h, po, pi, t) ==
    /\ _validate_host(h)
    /\ _validate_port(po)
    /\ _validate_pid(pi)
    /\ _validate_token_for_remote(h, t)

---------------------------------------------------------------------------
(* Per-process locals *)

(* MOHNITOR_REMOTE and MOHNITOR_TOKEN.  port -1: the URL names no port;     *)
(* port -2: the text after the last colon is not a number.                 *)
NoRemote == [scheme |-> "", host |-> "", port |-> 0, token |-> 0]
Remotes ==
    {NoRemote,
     [scheme |-> "ws", host |-> LOOPBACK, port |-> DefaultBasePort, token |-> 0],
     [scheme |-> "ws", host |-> "10.0.0.5", port |-> -1, token |-> 7],
     [scheme |-> "ws", host |-> "10.0.0.5", port |-> -2, token |-> 7],
     [scheme |-> "http", host |-> LOOPBACK, port |-> DefaultBasePort, token |-> 0]}

Cfg0 ==
    [entry |-> "none", host |-> LOOPBACK, base_port |-> DefaultBasePort,
     remote |-> NoRemote, disable |-> FALSE]

(* verdict: what _discover_from_file made of the descriptor file;          *)
(* remote_ok: the override's health check answered 200;                    *)
(* probe_hit: the port on which the probe got a 200, or 0                   *)
Di0 == [status |-> "pending", d |-> NoDesc, verdict |-> "", read |-> NoDesc,
        remote_ok |-> FALSE, probe_hit |-> 0]

En0 == [result |-> "pending", role |-> ""]

El0 == [retries |-> 0, acquired |-> FALSE, port |-> 0, raised |-> FALSE,
        fd |-> 0, clobbered |-> FALSE, wrote |-> FALSE]

InElection(s) ==
    s \in {"acq_create", "acq_write", "acq_check", "acq_unlink",
           "find_port", "save_open", "save_write", "release"}

(* Between _acquire_lock returning True and _release_lock. *)
HoldsLock(s) == s \in {"find_port", "save_open", "save_write", "release"}

Raced(newpc) == raced \/ \A q \in Procs : InElection(newpc[q])

---------------------------------------------------------------------------
(* election.py *)

_generate_token(p) == 100 + p

(* for port in range(base_port, base_port + 20): first port that binds *)
RECURSIVE ScanBind(_, _)
ScanBind(port, end) ==
    IF port >= end THEN 0
    ELSE IF CanBind(port) THEN port
    ELSE ScanBind(port + 1, end)

_find_available_port(host, base_port) == ScanBind(base_port, base_port + PortRange)

(* open(lock_path, "x"): creates the file, empty until the with block ends *)
AcquireCreate(p) ==
    /\ pc[p] = "acq_create"
    /\ IF ~lock.exists
       THEN /\ lock' = LockOf(p, 0)
            /\ pc' = [pc EXCEPT ![p] = "acq_write"]
       ELSE /\ lock' = lock
            /\ pc' = [pc EXCEPT ![p] = "acq_check"]
    /\ raced' = Raced(pc')
    /\ UNCHANGED <<hubVars, extVars>>
    /\ UNCHANGED <<desc, hubAlive, hubPort, unbindable, remoteUp, cfg, el, di, en, lock0>>

(* json.dump + close: the content reaches the file this process created,   *)
(* if the path still names it; _acquire_lock returns True either way       *)
AcquireWrite(p) ==
    /\ pc[p] = "acq_write"
    /\ lock' = IF lock.exists /\ lock.ino = p THEN LockOf(p, p) ELSE lock
    /\ el' = [el EXCEPT ![p].acquired = TRUE]
    /\ pc' = [pc EXCEPT ![p] = "find_port"]
    /\ raced' = Raced(pc')
    /\ UNCHANGED <<hubVars, extVars>>
    /\ UNCHANGED <<desc, hubAlive, hubPort, unbindable, remoteUp, cfg, di, en, lock0>>

(* Mutant: the liveness of the pid in the lock file is not checked. *)
StaleOnlyIfUnreadable(lf) ==
    \/ ~lf.exists
    \/ lf.pid = 0

(* _is_lock_stale: unreadable, no pid, or a pid that is not alive *)
_is_lock_stale(lf) ==
    \/ ~lf.exists
    \/ lf.pid = 0
    \/ ~_is_pid_alive(lf.pid)

(* except FileExistsError: stale -> unlink and retry; else return False *)
AcquireCheck(p) ==
    /\ pc[p] = "acq_check"
    /\ IF _is_lock_stale(lock)
       THEN /\ pc' = [pc EXCEPT ![p] = "acq_unlink"]
            /\ el' = el
       ELSE /\ pc' = [pc EXCEPT ![p] = "elected"]
            /\ el' = [el EXCEPT ![p].port = 0]
    /\ raced' = Raced(pc')
    /\ UNCHANGED <<hubVars, extVars>>
    /\ UNCHANGED <<lock, desc, hubAlive, hubPort, unbindable, remoteUp, cfg, di, en, lock0>>

(* lock_path.unlink(missing_ok=True); return _acquire_lock(lock_path) *)
AcquireUnlink(p) ==
    /\ pc[p] = "acq_unlink"
    /\ lock' = NoLock
    /\ el' = [el EXCEPT ![p].retries = @ + 1,
                        ![p].clobbered = @ \/ (lock.exists /\ lock.ino \in Procs)]
    /\ pc' = [pc EXCEPT ![p] = "acq_create"]
    /\ raced' = Raced(pc')
    /\ UNCHANGED <<hubVars, extVars>>
    /\ UNCHANGED <<desc, hubAlive, hubPort, unbindable, remoteUp, cfg, di, en, lock0>>

(* port = _find_available_port(...); if not port: return None;             *)
(* descriptor = HubDescriptor(...) which raises ValueError when invalid    *)
FindPort(p) ==
    /\ pc[p] = "find_port"
    /\ LET port == _find_available_port(cfg[p].host, cfg[p].base_port)
           token == IF cfg[p].host = LOOPBACK THEN 0 ELSE _generate_token(p)
       IN  IF port = 0
           THEN /\ el' = [el EXCEPT ![p].port = 0]
                /\ pc' = [pc EXCEPT ![p] = "release"]
           ELSE IF HubDescriptor(cfg[p].host, port, p, token)
           THEN /\ el' = [el EXCEPT ![p].port = port]
                /\ pc' = [pc EXCEPT ![p] = "save_open"]
           ELSE /\ el' = [el EXCEPT ![p].port = 0, ![p].raised = TRUE]
                /\ pc' = [pc EXCEPT ![p] = "release"]
    /\ raced' = Raced(pc')
    /\ UNCHANGED <<hubVars, extVars>>
    /\ UNCHANGED <<lock, desc, hubAlive, hubPort, unbindable, remoteUp, cfg, di, en, lock0>>

(* open(descriptor_path, "w"): truncates the file, or creates it *)
OpenTruncate(p, d) ==
    IF d.kind = "absent" THEN EmptyDesc(p) ELSE EmptyDesc(d.ino)

(* json.dump + close: writes at offset 0 of the file opened; a longer      *)
(* content another writer put there since keeps its tail                   *)
WriteDesc(d, fd, new) ==
    IF d.kind = "absent" \/ d.ino # fd THEN d
    ELSE IF d.kind = "json" /\ d.token # 0 /\ new.token = 0 THEN GarbageDesc(fd)
    ELSE [new EXCEPT !.ino = fd]

SaveOpen(p) ==
    /\ pc[p] = "save_open"
    /\ desc' = OpenTruncate(p, desc)
    /\ el' = [el EXCEPT ![p].fd = desc'.ino, ![p].wrote = TRUE]
    /\ pc' = [pc EXCEPT ![p] = "save_write"]
    /\ raced' = Raced(pc')
    /\ UNCHANGED <<hubVars, extVars>>
    /\ UNCHANGED <<lock, hubAlive, hubPort, unbindable, remoteUp, cfg, di, en, lock0>>

SaveWrite(p) ==
    /\ pc[p] = "save_write"
    /\ LET token == IF cfg[p].host = LOOPBACK THEN 0 ELSE _generate_token(p)
       IN  desc' = WriteDesc(desc, el[p].fd,
                             JsonDesc(0, cfg[p].host, el[p].port, p, token))
    /\ el' = [el EXCEPT ![p].fd = 0]
    /\ pc' = [pc EXCEPT ![p] = "release"]
    /\ raced' = Raced(pc')
    /\ UNCHANGED <<hubVars, extVars>>
    /\ UNCHANGED <<lock, hubAlive, hubPort, unbindable, remoteUp, cfg, di, en, lock0>>

(* Mutant: the lock is released on the success path only. *)
ReleaseOnSuccessOnly(p) ==
    /\ pc[p] = "release"
    /\ lock' = IF el[p].port # 0 THEN NoLock ELSE lock
    /\ pc' = [pc EXCEPT ![p] = "elected"]
    /\ raced' = Raced(pc')
    /\ UNCHANGED <<hubVars, extVars>>
    /\ UNCHANGED <<desc, hubAlive, hubPort, unbindable, remoteUp, cfg, el, di, en, lock0>>

(* finally: _release_lock(lock_path): unlink(missing_ok=True) *)
_release_lock(p) ==
    /\ pc[p] = "release"
    /\ lock' = NoLock
    /\ pc' = [pc EXCEPT ![p] = "elected"]
    /\ raced' = Raced(pc')
    /\ UNCHANGED <<hubVars, extVars>>
    /\ UNCHANGED <<desc, hubAlive, hubPort, unbindable, remoteUp, cfg, el, di, en, lock0>>

(* A process calls try_become_hub(host, base_port) directly. *)
CallElection(p) ==
    /\ pc[p] = "idle"
    /\ \E a \in Args :
         cfg' = [cfg EXCEPT ![p] = [entry |-> "elect", host |-> a[1],
                                    base_port |-> a[2], remote |-> NoRemote,
                                    disable |-> FALSE]]
    /\ pc' = [pc EXCEPT ![p] = "acq_create"]
    /\ raced' = Raced(pc')
    /\ UNCHANGED <<hubVars, extVars>>
    /\ UNCHANGED <<lock, desc, hubAlive, hubPort, unbindable, remoteUp, el, di, en, lock0>>

(* A process calls try_become_hub(host, base_port) with any of the hosts a  *)
(* hub is bound to.                                                        *)
CallElectionOn(p) ==
    /\ pc[p] = "idle"
    /\ \E h \in {LOOPBACK, "localhost", "0.0.0.0"} :
         cfg' = [cfg EXCEPT ![p] = [entry |-> "elect", host |-> h,
                                    base_port |-> DefaultBasePort,
                                    remote |-> NoRemote, disable |-> FALSE]]
    /\ pc' = [pc EXCEPT ![p] = "acq_create"]
    /\ raced' = Raced(pc')
    /\ UNCHANGED <<hubVars, extVars>>
    /\ UNCHANGED <<lock, desc, hubAlive, hubPort, unbindable, remoteUp, el, di, en, lock0>>

---------------------------------------------------------------------------
(* discovery.py *)

RemoteDefaultPort == 17361
ProbeFirst == 17361
ProbeEnd == 17381

None == [status |-> "none", d |-> NoDesc]
Found(d) == [status |-> "found", d |-> d]
Raises == [status |-> "raised", d |-> NoDesc]

(* requests.get(f"http://{host}:{port}/healthz").status_code == 200 *)
HealthyAt(host, port) ==
    IF host \in {LOOPBACK, "localhost"} THEN Healthy(port) ELSE remoteUp

(* HubDescriptor(...) inside a try: the descriptor, or the ValueError *)
Construct(h, po, pi, t) ==
    IF HubDescriptor(h, po, pi, t) THEN Found(JsonDesc(0, h, po, pi, t)) ELSE Raises

(* _discover_from_remote_url: every exception is swallowed *)
_discover_from_remote_url(r) ==
    IF r.scheme # "ws" THEN None
    ELSE IF r.port = -2 THEN None
    ELSE LET port == IF r.port = -1 THEN RemoteDefaultPort ELSE r.port
             made == Construct(r.host, port, 0, r.token)
         IN  IF ~HealthyAt(r.host, port) THEN None
             ELSE IF made.status = "raised" THEN None
             ELSE made

RemoteAnswers(r) ==
    /\ r.scheme = "ws"
    /\ r.port # -2
    /\ HealthyAt(r.host, IF r.port = -1 THEN RemoteDefaultPort ELSE r.port)

(* discover_hub, step 1: if remote_url: return _discover_from_remote_url *)
DiscRemote(p) ==
    /\ pc[p] = "disc_remote"
    /\ LET r == _discover_from_remote_url(cfg[p].remote)
       IN  di' = [di EXCEPT ![p].status = r.status, ![p].d = r.d,
                            ![p].remote_ok = RemoteAnswers(cfg[p].remote)]
    /\ pc' = [pc EXCEPT ![p] = "discovered"]
    /\ UNCHANGED <<hubVars, extVars>>
    /\ UNCHANGED <<lock, desc, hubAlive, hubPort, unbindable, remoteUp, cfg, el, en,
                   lock0, raced>>

(* _discover_from_file: if not descriptor_path.exists(): return None *)
DiscExists(p) ==
    /\ pc[p] = "disc_exists"
    /\ IF desc.kind = "absent"
       THEN /\ pc' = [pc EXCEPT ![p] = "disc_probe"]
            /\ di' = [di EXCEPT ![p].verdict = "absent"]
       ELSE /\ pc' = [pc EXCEPT ![p] = "disc_read"]
            /\ di' = di
    /\ UNCHANGED <<hubVars, extVars>>
    /\ UNCHANGED <<lock, desc, hubAlive, hubPort, unbindable, remoteUp, cfg, el, en,
                   lock0, raced>>

(* open + json.load + HubDescriptor.from_dict + _is_pid_alive *)
ReadVerdict(d) ==
    IF d.kind # "json" THEN "invalid"
    ELSE IF ~HubDescriptor(d.host, d.port, d.pid, d.token) THEN "invalid"
    ELSE IF ~_is_pid_alive(d.pid) THEN "dead_pid"
    ELSE "alive"

DiscRead(p) ==
    /\ pc[p] = "disc_read"
    /\ LET v == ReadVerdict(desc)
       IN  /\ di' = [di EXCEPT ![p].verdict = v,
                                ![p].read = desc]
           /\ pc' = [pc EXCEPT ![p] = IF v = "alive" THEN "disc_health"
                                      ELSE "disc_unlink"]
    /\ UNCHANGED <<hubVars, extVars>>
    /\ UNCHANGED <<lock, desc, hubAlive, hubPort, unbindable, remoteUp, cfg, el, en,
                   lock0, raced>>

(* _validate_hub_health(descriptor) *)
DiscHealth(p) ==
    /\ pc[p] = "disc_health"
    /\ IF HealthyAt(di[p].read.host, di[p].read.port)
       THEN /\ di' = [di EXCEPT ![p].verdict = "ok", ![p].status = "found",
                                ![p].d = [di[p].read EXCEPT !.ino = 0],
                                ![p].read = NoDesc]
            /\ pc' = [pc EXCEPT ![p] = "discovered"]
       ELSE /\ di' = [di EXCEPT ![p].verdict = "unhealthy"]
            /\ pc' = [pc EXCEPT ![p] = "disc_unlink"]
    /\ UNCHANGED <<hubVars, extVars>>
    /\ UNCHANGED <<lock, desc, hubAlive, hubPort, unbindable, remoteUp, cfg, el, en,
                   lock0, raced>>

(* Mutant: a rejected descriptor file is left in place. *)
KeepRejectedDescriptor(p) ==
    /\ pc[p] = "disc_unlink"
    /\ desc' = desc
    /\ di' = [di EXCEPT ![p].read = NoDesc]
    /\ pc' = [pc EXCEPT ![p] = "disc_probe"]
    /\ UNCHANGED <<hubVars, extVars>>
    /\ UNCHANGED <<lock, hubAlive, hubPort, unbindable, remoteUp, cfg, el, en,
                   lock0, raced>>

(* descriptor_path.unlink(missing_ok=True); return None *)
DiscUnlink(p) ==
    /\ pc[p] = "disc_unlink"
    /\ desc' = NoDesc
    /\ di' = [di EXCEPT ![p].read = NoDesc]
    /\ pc' = [pc EXCEPT ![p] = "disc_probe"]
    /\ UNCHANGED <<hubVars, extVars>>
    /\ UNCHANGED <<lock, hubAlive, hubPort, unbindable, remoteUp, cfg, el, en,
                   lock0, raced>>

(* for port in range(17361, 17381): first port that answers 200 *)
RECURSIVE ScanHealth(_, _)
ScanHealth(port, end) ==
    IF port >= end THEN 0
    ELSE IF Healthy(port) THEN port
    ELSE ScanHealth(port + 1, end)

(* _probe_default_port: HubDescriptor(pid=0) is built outside any handler  *)
(* for ValueError; only requests.RequestException is caught                *)
_probe_default_port ==
    LET port == ScanHealth(ProbeFirst, ProbeEnd)
    IN  IF port = 0 THEN None ELSE Construct(LOOPBACK, port, 0, 0)

DiscProbe(p) ==
    /\ pc[p] = "disc_probe"
    /\ LET r == _probe_default_port
       IN  di' = [di EXCEPT ![p].status = r.status, ![p].d = r.d,
                            ![p].probe_hit = ScanHealth(ProbeFirst, ProbeEnd)]
    /\ pc' = [pc EXCEPT ![p] = "discovered"]
    /\ UNCHANGED <<hubVars, extVars>>
    /\ UNCHANGED <<lock, desc, hubAlive, hubPort, unbindable, remoteUp, cfg, el, en,
                   lock0, raced>>

(* A process calls discover_hub() with its environment. *)
CallDiscover(p) ==
    /\ pc[p] = "idle"
    /\ \E r \in Remotes :
         /\ cfg' = [cfg EXCEPT ![p] = [Cfg0 EXCEPT !.entry = "discover", !.remote = r]]
         /\ pc' = [pc EXCEPT ![p] = IF r # NoRemote THEN "disc_remote"
                                    ELSE "disc_exists"]
    /\ UNCHANGED <<hubVars, extVars>>
    /\ UNCHANGED <<lock, desc, hubAlive, hubPort, unbindable, remoteUp, el, di, en,
                   lock0, raced>>

(* The hub process that was running dies; its port is free again and its   *)
(* descriptor stays behind.                                                *)
HubDies ==
    /\ hubAlive
    /\ hubAlive' = FALSE
    /\ UNCHANGED <<hubVars, extVars>>
    /\ UNCHANGED <<lock, desc, hubPort, unbindable, remoteUp, pc, cfg, el, di, en,
                   lock0, raced>>

---------------------------------------------------------------------------
(* mohnitor.py: enable_mohnitor.  disable: MOHNITOR_DISABLE is "1". *)

(* The (mohnitor_host, mohnitor_base_port) arguments: the defaults, all    *)
(* interfaces, and a base port below the ports a descriptor accepts.       *)
EnableArgs ==
    {<<LOOPBACK, DefaultBasePort>>, <<"0.0.0.0", DefaultBasePort>>, <<LOOPBACK, 1000>>}
EnableRemotes ==
    {NoRemote, [scheme |-> "ws", host |-> LOOPBACK, port |-> DefaultBasePort, token |-> 0]}

(* Mutant: the disable variable is not looked at. *)
CallEnableAnyway(p) ==
    /\ pc[p] = "idle"
    /\ \E a \in EnableArgs, r \in EnableRemotes, disable \in BOOLEAN :
         /\ cfg' = [cfg EXCEPT ![p] = [entry |-> "enable", host |-> a[1],
                                       base_port |-> a[2], remote |-> r,
                                       disable |-> disable]]
         /\ pc' = [pc EXCEPT ![p] = IF r # NoRemote THEN "disc_remote"
                                    ELSE "disc_exists"]
    /\ UNCHANGED <<hubVars, extVars>>
    /\ UNCHANGED <<lock, desc, hubAlive, hubPort, unbindable, remoteUp, el, di, en,
                   lock0, raced>>

(* enable_mohnitor(service, mohnitor_host, mohnitor_base_port):            *)
(* if os.getenv("MOHNITOR_DISABLE") == "1": return False; discover_hub()    *)
CallEnable(p) ==
    /\ pc[p] = "idle"
    /\ \E a \in EnableArgs, r \in EnableRemotes, disable \in BOOLEAN :
         /\ cfg' = [cfg EXCEPT ![p] = [entry |-> "enable", host |-> a[1],
                                       base_port |-> a[2], remote |-> r,
                                       disable |-> disable]]
         /\ pc' = [pc EXCEPT ![p] = IF disable THEN "enabled"
                                    ELSE IF r # NoRemote THEN "disc_remote"
                                    ELSE "disc_exists"]
         /\ en' = [en EXCEPT ![p] = IF disable THEN [result |-> "false", role |-> ""]
                                    ELSE @]
    /\ UNCHANGED <<hubVars, extVars>>
    /\ UNCHANGED <<lock, desc, hubAlive, hubPort, unbindable, remoteUp, el, di,
                   lock0, raced>>

---------------------------------------------------------------------------
(* hub.py and performance.py: the hub session.                             *)
(*                                                                         *)
(* The memory budget and the batch threshold are scaled: BufferBudget      *)
(* stands for the 50 MB target of hub.py:88 counted in events of the       *)
(* initial average size, MinBufferSize for the floor of 1000 events of     *)
(* performance.py:158, BatchSize for batch_size = 50 of performance.py:55, *)
(* ReplayLimit for the 1000 events of hub.py:412 and hub.py:503, which is  *)
(* below the capacity of the buffer as it is in the program, MaxDelay for  *)
(* max_delay_ms = 100 of performance.py:55.                                *)
(* last_seen and the performance_monitor counters feed the /system report *)
(* only and are left out.                                                  *)

NumProducers == 2
NumViewers == 2
NumReplayViewers == 1
NumReplayProducers == 1
MaxEvents == 4
MaxRequests == 1
BufferBudget == 3
MinBufferSize == 1
BatchSize == 2
ReplayLimit == 2
MaxDelay == 2

AvgEventSize == 1024
BaseEventSize == 200
MaxEventSize == 65536
CacheMaxSize == 10000

Producers == 1 .. NumProducers
Viewers == 1 .. NumViewers

Max(a, b) == IF a >= b THEN a ELSE b
Min(a, b) == IF a <= b THEN a ELSE b

(* types.py: "127.0.0.1" and "localhost" are the hosts that need no token *)
IsLoopback(h) == h \in {LOOPBACK, "localhost"}

HubHosts == {LOOPBACK, "localhost", "0.0.0.0"}
(* secrets.token_urlsafe(24) *)
HubToken == 200
(* The token query parameter of a producer: none, the hub's, another one. *)
PresentedTokens == {0, HubToken, HubToken + 1}

(* memory_optimizer.optimize_buffer_size(target, avg) *)
optimize_buffer_size(target_bytes, avg_event_size_bytes) ==
    Max(MinBufferSize, target_bytes \div avg_event_size_bytes)

(* MohnitorHub.__init__ with _optimize_buffer_size: the size asked for is  *)
(* replaced by the optimal one whenever the two differ.                    *)
MohnitorHub(host, buffer_size) ==
    LET optimal_size == optimize_buffer_size(BufferBudget * AvgEventSize, AvgEventSize)
    IN  [host |-> host,
         token |-> IF host # LOOPBACK THEN HubToken ELSE 0,
         buffer_size |-> IF optimal_size # buffer_size THEN optimal_size
                         ELSE buffer_size,
         avg_event_size |-> [num |-> AvgEventSize, den |-> 1]]

NoHub == [host |-> "", token |-> 0, buffer_size |-> 0,
          avg_event_size |-> [num |-> 0, den |-> 1]]

(* The service query parameter of a producer socket. *)
ServiceName(p) == IF p = 1 THEN "auth" ELSE "api"

(* A log_event payload.  src and seq stand for source_pid and timestamp:   *)
(* the seq-th record emitted by producer src.  message is the JSON type of *)
(* the message field, size the serialized size in bytes.                   *)
Event(p, k, level, message, size) ==
    [src |-> p, seq |-> k, service |-> ServiceName(p), level |-> level,
     message |-> message, size |-> size]

NoEvent == [src |-> 0, seq |-> 0, service |-> "", level |-> "", message |-> "",
            size |-> 0]

(* create_descriptor: HubDescriptor(host, port, pid, token=self.token) *)
create_descriptor(h) == JsonDesc(0, h.host, hubPort, HubPid, h.token)

(* run(): save_descriptor() writes create_descriptor().to_dict() to the    *)
(* descriptor file opened with "w", before the server is started           *)
save_descriptor ==
    /\ hub # NoHub
    /\ ~hubAlive
    /\ HubDescriptor(hub.host, hubPort, HubPid, hub.token)
    /\ LET opened == OpenTruncate(HubPid, desc)
       IN  desc' = [create_descriptor(hub) EXCEPT !.ino = opened.ino]
    /\ UNCHANGED <<lock, hubAlive, hubPort, unbindable, remoteUp, pc, cfg, el, di, en,
                   lock0, raced>>
    /\ UNCHANGED <<hubVars, extVars>>

(* run(): uvicorn.run(app, host, port) of the hub that saved its           *)
(* descriptor: the hub answers on its port                                 *)
uvicorn_run ==
    /\ hub # NoHub
    /\ ~hubAlive
    /\ desc = [create_descriptor(hub) EXCEPT !.ino = desc.ino]
    /\ hubAlive' = TRUE
    /\ UNCHANGED <<lock, desc, hubPort, unbindable, remoteUp, pc, cfg, el, di, en,
                   lock0, raced>>
    /\ UNCHANGED <<hubVars, extVars>>

(* What a producer can put on its socket as its k-th message: a log_event  *)
(* at the size limit, one above it, one with a level outside the five,     *)
(* one whose message is a JSON array, one whose message is a JSON number,  *)
(* a message of a type the hub does not know, and text that is not JSON.   *)
Messages(p, k) ==
    {[form |-> "log_event", payload |-> Event(p, k, "INFO", "text", MaxEventSize)],
     [form |-> "log_event", payload |-> Event(p, k, "INFO", "text", MaxEventSize + 1)],
     [form |-> "log_event", payload |-> Event(p, k, "TRACE", "text", MaxEventSize)],
     [form |-> "log_event", payload |-> Event(p, k, "INFO", "array", MaxEventSize)],
     [form |-> "log_event", payload |-> Event(p, k, "INFO", "number", MaxEventSize)],
     [form |-> "unknown_type", payload |-> NoEvent],
     [form |-> "not_json", payload |-> NoEvent]}

(* What the forwarding handler puts on its socket for a record of the     *)
(* application that is within the size limit.                              *)
ForwarderMessages(p, k) ==
    {[form |-> "log_event", payload |-> Event(p, k, "INFO", "text", MaxEventSize)]}

(* LogEvent._validate_level *)
_validate_level(ev) == ev.level \in {"DEBUG", "INFO", "WARN", "ERROR", "CRITICAL"}

(* LogEvent._validate_service *)
_validate_service(ev) == ev.service # ""

(* LogEvent.from_dict returns an event (no ValueError from __post_init__) *)
from_dict(ev) == _validate_level(ev) /\ _validate_service(ev)

(* memory_optimizer.estimate_event_size returns: len(event.message) is     *)
(* defined for a string and for an array, a TypeError for a number         *)
estimate_event_size(ev) == ev.message \in {"text", "array"}

(* The size that estimate_event_size returns: 200 and two bytes for each   *)
(* character of the message and the service (the logger name and the       *)
(* context are not part of the model's events).                            *)
event_size(ev) == BaseEventSize + 2 * Len(ev.message) + 2 * Len(ev.service)

(* self.avg_event_size = (self.avg_event_size * 0.9) + (event_size * 0.1), *)
(* kept as a fraction num / den; buffer_size stays what the constructor    *)
(* made it.                                                                *)
UpdateAverage(h, size) ==
    [h EXCEPT !.avg_event_size = [num |-> 9 * @.num + size * @.den,
                                  den |-> 10 * @.den]]

(* hash(log_event.message) returns: an array is unhashable *)
Hashable(ev) == ev.message = "text"

(* LogEvent as declared: a level of the five, a service, a string message *)
ValidLogEvent(ev) == from_dict(ev) /\ ev.message = "text"

(* LogEvent.validate_size raises *)
Oversized(ev) == ev.size > MaxEventSize

(* dict updates *)
DictPut(d, k, v) == [x \in (DOMAIN d) \cup {k} |-> IF x = k THEN v ELSE d[x]]
DictPop(d, k) == [x \in (DOMAIN d) \ {k} |-> d[x]]
EmptyDict == [x \in {} |-> 0]

(* deque.remove(x): removes the first occurrence *)
RECURSIVE DequeRemove(_, _)
DequeRemove(s, x) ==
    IF s = <<>> THEN <<>>
    ELSE IF Head(s) = x THEN Tail(s)
    ELSE <<Head(s)>> \o DequeRemove(Tail(s), x)

EmptyCache == [cache |-> EmptyDict, access_order |-> <<>>]

(* f"{log_event.service}:{log_event.level}:{hash(log_event.message)}" *)
EventKey(ev) == <<ev.service, ev.level, ev.message>>

(* Mutant: get leaves the access order alone. *)
GetNoTouch(c, key) == c

(* LogEventCache.get on a key that is cached: moved to the end of the order *)
CacheGet(c, key) ==
    [c EXCEPT !.access_order = Append(DequeRemove(c.access_order, key), key)]

(* LogEventCache.put on a cache of max_size *)
Cache_put(c, max_size, key, value) ==
    LET known == key \in DOMAIN c.cache
        evict == ~known /\ Cardinality(DOMAIN c.cache) >= max_size
        order == IF known THEN DequeRemove(c.access_order, key)
                 ELSE IF evict THEN Tail(c.access_order)
                 ELSE c.access_order
        kept == IF evict THEN DictPop(c.cache, Head(c.access_order)) ELSE c.cache
    IN  [cache |-> DictPut(kept, key, value), access_order |-> Append(order, key)]

(* event_cache.put of the hub, whose cache has the default max_size *)
CachePut(c, key, value) == Cache_put(c, CacheMaxSize, key, value)

(* message_batcher.subscribers of a hub: MessageBatcher.add_subscriber is   *)
(* called by nothing, and MohnitorHub.__init__ replaces it by               *)
(* _add_batcher_subscriber, which calls the replaced attribute, itself.     *)
subscribers == {}

(* next: the number of the next record of the producer; garbled: a message *)
(* that is not a log_event with a valid LogEvent came in on the socket     *)
Prod0 == [state |-> "new", cid |-> <<"", 0>>, token |-> 0, next |-> 1,
          garbled |-> FALSE]
(* inbox: the requests of the viewer that the endpoint has not read yet;   *)
(* asked: their number so far; backlog: the buffer when the viewer came    *)
View0 == [state |-> "new", broken |-> FALSE, snap |-> <<>>, received |-> <<>>,
          inbox |-> <<>>, asked |-> 0, backlog |-> <<>>, token |-> 0]

(* What a viewer socket received: a log_event of the backlog replay, an    *)
(* event of a batch, or a system_stats message.                            *)
Sent(via, ev) == [via |-> via, ev |-> ev]

RECURSIVE SentAll(_, _)
SentAll(via, evs) ==
    IF evs = <<>> THEN <<>>
    ELSE <<Sent(via, Head(evs))>> \o SentAll(via, Tail(evs))

(* websocket_endpoint, service given: the token check, then registration *)
_register_as(p, service, token) ==
    /\ IF hub.host # LOOPBACK /\ token # hub.token
       THEN /\ prod' = [prod EXCEPT ![p].state = "rejected", ![p].token = token]
            /\ UNCHANGED <<connections, websockets>>
       ELSE LET connection_id == <<service, Cardinality(DOMAIN connections)>>
            IN  /\ connections' = DictPut(connections, connection_id,
                                          [service |-> service, events_sent |-> 0])
                /\ websockets' = DictPut(websockets, connection_id, p)
                /\ prod' = [prod EXCEPT ![p].state = "open", ![p].token = token,
                                        ![p].cid = connection_id]
    /\ UNCHANGED <<hub, event_buffer, dropped_events, ui_websockets, pending_messages,
                   flush_tasks, event_cache, view, arrived, owed>>

(* The service query parameter is the name of the producer's service. *)
_register(p, token) == _register_as(p, ServiceName(p), token)

(* A producer socket that was not connected before connects. *)
Register(p, token) ==
    /\ prod[p].state = "new"
    /\ _register(p, token)
    /\ UNCHANGED <<coordVars, extVars>>

(* Any producer connects: /ws?service=...&token=... *)
ProducerConnect(p) == \E token \in PresentedTokens : Register(p, token)

(* The forwarding handler connects: ws://host:port/ws?service=..., no token *)
ForwarderConnect(p) == Register(p, 0)

(* except WebSocketDisconnect / finally: connections.pop, websockets.pop *)
_unregister(p) ==
    /\ connections' = DictPop(connections, prod[p].cid)
    /\ websockets' = DictPop(websockets, prod[p].cid)
    /\ prod' = [prod EXCEPT ![p].state = "closed"]
    /\ UNCHANGED <<hub, event_buffer, dropped_events, ui_websockets, pending_messages,
                   flush_tasks, event_cache, view, arrived, owed>>

(* /ws?service=...: an instance of any service connects, the token in its  *)
(* hand.                                                                   *)
ConnectAs(p) ==
    /\ prod[p].state = "new"
    /\ \E service \in {ServiceName(q) : q \in Producers} :
         _register_as(p, service, hub.token)
    /\ UNCHANGED <<coordVars, extVars>>

(* The client of a closed connection opens a new socket. *)
Reopen(p) ==
    /\ prod[p].state = "closed"
    /\ prod' = [prod EXCEPT ![p] = Prod0]
    /\ UNCHANGED <<hub, event_buffer, dropped_events, connections, websockets,
                   ui_websockets, pending_messages, flush_tasks, event_cache, view,
                   arrived, owed>>
    /\ UNCHANGED <<coordVars, extVars>>

(* The connection of a producer is lost: receive_text raises in the hub. *)
ProducerDisconnect(p) ==
    /\ prod[p].state = "open"
    /\ _unregister(p)
    /\ UNCHANGED <<coordVars, extVars>>

(* Mutant: the test lets one event more in than buffer_size. *)
RingFullOffByOne == Len(event_buffer) > hub.buffer_size

(* if len(self.event_buffer) >= self.buffer_size *)
RingFull == Len(event_buffer) >= hub.buffer_size

(* _handle_client_message(connection_id, message).  performance_enabled is *)
(* True in every hub, so the batching branch is taken exactly when a       *)
(* viewer is connected; otherwise _broadcast_to_ui returns at its first    *)
(* test because there is no viewer.  Every exception ends the handler at   *)
(* the statement that raised it and is printed.                            *)
_handle_client_message(p, m) ==
    LET connection_id == prod[p].cid
        ev == m.payload
        accepted == /\ m.form = "log_event"
                    /\ from_dict(ev)
                    /\ estimate_event_size(ev)
        full == RingFull
        batched == accepted /\ ui_websockets # {} /\ Hashable(ev)
        event_key == EventKey(ev)
        hit == event_key \in DOMAIN event_cache.cache
        cached_payload == IF hit THEN event_cache.cache[event_key] ELSE ev
    IN  /\ prod' = [prod EXCEPT ![p].next = IF accepted THEN @ + 1 ELSE @,
                                ![p].garbled = @ \/ m.form # "log_event"
                                                 \/ ~ValidLogEvent(ev)]
        /\ hub' = IF accepted THEN UpdateAverage(hub, event_size(ev)) ELSE hub
        /\ IF accepted
           THEN /\ event_buffer' = IF full THEN event_buffer
                                   ELSE Append(event_buffer, ev)
                /\ dropped_events' = IF full THEN dropped_events + 1
                                     ELSE dropped_events
                /\ connections' =
                       IF connection_id \in DOMAIN connections
                       THEN [connections EXCEPT ![connection_id].events_sent = @ + 1]
                       ELSE connections
                /\ arrived' = Append(arrived, ev)
                /\ owed' = [v \in Viewers |->
                               IF v \in ui_websockets THEN owed[v] \cup {ev}
                               ELSE owed[v]]
           ELSE UNCHANGED <<event_buffer, dropped_events, connections, arrived, owed>>
        /\ IF batched
           THEN /\ event_cache' = IF hit THEN CacheGet(event_cache, event_key)
                                  ELSE CachePut(event_cache, event_key, ev)
                /\ pending_messages' = Append(pending_messages, cached_payload)
                /\ flush_tasks' = IF Len(pending_messages') >= BatchSize
                                  THEN flush_tasks + 1 ELSE flush_tasks
           ELSE UNCHANGED <<event_cache, pending_messages, flush_tasks>>

(* message = await websocket.receive_text(); _handle_client_message(...) *)
Receive(p, messages) ==
    /\ prod[p].state = "open"
    /\ Len(arrived) < MaxEvents
    /\ \E m \in messages : _handle_client_message(p, m)
    /\ UNCHANGED <<websockets, ui_websockets, view>>
    /\ UNCHANGED <<coordVars, extVars>>

(* Any producer sends a message. *)
ProducerSend(p) == Receive(p, Messages(p, prod[p].next))

(* The forwarding handler sends a queued record:                           *)
(* {"type": "log_event", "payload": log_event.to_dict()}                   *)
ForwarderSend(p) == Receive(p, ForwarderMessages(p, prod[p].next))

(* MessageBatcher._send_batch: one batch message to every subscriber, then *)
(* pending_messages.clear()                                                *)
_send_batch ==
    /\ view' = [v \in Viewers |->
                   IF v \in subscribers /\ pending_messages # <<>>
                   THEN [view[v] EXCEPT !.received = @ \o SentAll("batch", pending_messages)]
                   ELSE view[v]]
    /\ pending_messages' = <<>>
    /\ clock' = [clock EXCEPT !.elapsed = IF pending_messages # <<>> THEN 0 ELSE @]

(* A task created by add_message at the size threshold runs. *)
RunFlushTask ==
    /\ flush_tasks > 0
    /\ flush_tasks' = flush_tasks - 1
    /\ _send_batch
    /\ UNCHANGED <<hub, event_buffer, dropped_events, connections, websockets,
                   ui_websockets, event_cache, prod, arrived, owed>>
    /\ UNCHANGED <<coordVars, handler, pureVars>>

(* start_timer without the clock: time passed up to a tick at which        *)
(* messages are pending and max_delay_ms has passed since the last batch   *)
TimerFlush ==
    /\ pending_messages # <<>>
    /\ _send_batch
    /\ UNCHANGED <<hub, event_buffer, dropped_events, connections, websockets,
                   ui_websockets, flush_tasks, event_cache, prod, arrived, owed>>
    /\ UNCHANGED <<coordVars, handler, pureVars>>

(* MessageBatcher.__init__: last_batch_time = time.time(); the timer task  *)
(* starts with its first sleep.  elapsed is time.time() - last_batch_time, *)
(* counted up to max_delay_ms, sleep what is left of asyncio.sleep.        *)
Clock0 == [elapsed |-> 0, sleep |-> MaxDelay]

(* One unit of time passes. *)
Tick ==
    /\ clock.elapsed < MaxDelay \/ clock.sleep > 0
    /\ clock' = [elapsed |-> Min(clock.elapsed + 1, MaxDelay),
                 sleep |-> Max(clock.sleep - 1, 0)]
    /\ UNCHANGED <<coordVars, hubVars, handler, pureVars>>

(* Mutant: the timer wakes up and sends nothing. *)
TimerIdles ==
    /\ clock.sleep = 0
    /\ clock' = [clock EXCEPT !.sleep = MaxDelay]
    /\ UNCHANGED <<coordVars, hubVars, handler, pureVars>>

(* start_timer, one round: the sleep is over; if pending_messages and      *)
(* (current_time - last_batch_time) * 1000 >= max_delay_ms: _send_batch()  *)
start_timer ==
    /\ clock.sleep = 0
    /\ IF pending_messages # <<>> /\ clock.elapsed >= MaxDelay
       THEN /\ view' = [v \in Viewers |->
                          IF v \in subscribers
                          THEN [view[v] EXCEPT !.received =
                                    @ \o SentAll("batch", pending_messages)]
                          ELSE view[v]]
            /\ pending_messages' = <<>>
            /\ clock' = [elapsed |-> 0, sleep |-> MaxDelay]
       ELSE /\ clock' = [clock EXCEPT !.sleep = MaxDelay]
            /\ UNCHANGED <<view, pending_messages>>
    /\ UNCHANGED <<hub, event_buffer, dropped_events, connections, websockets,
                   ui_websockets, flush_tasks, event_cache, prod, arrived, owed>>
    /\ UNCHANGED <<coordVars, handler, pureVars>>

RECURSIVE Reverse(_)
Reverse(q) == IF q = <<>> THEN <<>> ELSE Reverse(Tail(q)) \o <<Head(q)>>

(* Mutant: the backlog is replayed newest first. *)
NewestFirst(buffer) ==
    Reverse(SubSeq(buffer, Max(1, Len(buffer) - ReplayLimit + 1), Len(buffer)))

(* Mutant: the whole buffer is replayed. *)
WholeBuffer(buffer) == buffer

(* list(self.event_buffer)[-1000:] *)
RecentEvents(buffer) ==
    SubSeq(buffer, Max(1, Len(buffer) - ReplayLimit + 1), Len(buffer))

(* websocket_endpoint, type == "ui": ui_websockets.add(websocket), then    *)
(* _send_initial_ui_data up to its first send                              *)
_ui_connect(v, token) ==
    /\ view[v].state = "new"
    /\ ui_websockets' = ui_websockets \cup {v}
    /\ view' = [view EXCEPT ![v].state = "replay", ![v].snap = RecentEvents(event_buffer),
                            ![v].backlog = event_buffer, ![v].token = token]
    /\ UNCHANGED <<hub, event_buffer, dropped_events, connections, websockets,
                   pending_messages, flush_tasks, event_cache, prod, arrived, owed>>
    /\ UNCHANGED <<coordVars, extVars>>

(* The viewer page connects: /ws?type=ui, no token *)
ViewerConnect(v) == _ui_connect(v, 0)

(* Any viewer connects: /ws?type=ui&token=... *)
ViewerConnectAny(v) == \E token \in PresentedTokens : _ui_connect(v, token)

(* _send_initial_ui_data: one send of the replay, or the system_stats that *)
(* follows the last one.  A send on a broken socket raises; the exception  *)
(* ends the replay and the endpoint goes on to its receive loop.           *)
ViewerReplaySend(v) ==
    /\ view[v].state = "replay"
    /\ IF view[v].broken
       THEN view' = [view EXCEPT ![v].state = "live", ![v].snap = <<>>]
       ELSE IF view[v].snap # <<>>
       THEN view' = [view EXCEPT ![v].received = Append(@, Sent("replay", Head(view[v].snap))),
                                 ![v].snap = Tail(@)]
       ELSE view' = [view EXCEPT ![v].received = Append(@, Sent("stats", NoEvent)),
                                 ![v].state = "live"]
    /\ UNCHANGED <<hub, event_buffer, dropped_events, connections, websockets,
                   ui_websockets, pending_messages, flush_tasks, event_cache, prod,
                   arrived, owed>>
    /\ UNCHANGED <<coordVars, extVars>>

(* filters of a get_logs request: services, level, search, and since, the  *)
(* time from which the viewer wants events (0: none of them given)         *)
NoFilter == [services |-> {}, level |-> "", search |-> "", since |-> 0]

(* A get_logs request with no filter, and one for a service and a level;   *)
(* the search filter is left empty.                                        *)
Filters == {NoFilter, [NoFilter EXCEPT !.services = {"auth"}, !.level = "INFO"]}

(* Requests with a search term, in capitals and one that no message holds, *)
(* with a level no event has, and with a time.                             *)
SnapshotFilters ==
    Filters \cup {[NoFilter EXCEPT !.search = "TEXT"],
                  [NoFilter EXCEPT !.search = "other"],
                  [NoFilter EXCEPT !.level = "ERROR"],
                  [NoFilter EXCEPT !.since = MaxEvents]}

(* What a viewer can ask for. *)
Requests == {[type |-> "ping", filters |-> NoFilter]}
            \cup {[type |-> "get_logs", filters |-> f] : f \in Filters}

SnapshotRequests == {[type |-> "get_logs", filters |-> f] : f \in SnapshotFilters}

(* str.lower() of the search terms and messages above *)
lower(str) == IF str = "TEXT" THEN "text" ELSE str

(* term in message, for the lowered search terms and messages above *)
IsSubstring(term, message) == term = "" \/ term = message

(* The time of a record: the k-th record of an application is created at   *)
(* time k (record.created).                                                *)
Timestamp(event) == event.seq

(* _send_filtered_logs: the buffered events that pass the filters, the     *)
(* last 1000 of them                                                       *)
RECURSIVE FilterEvents(_, _)
FilterEvents(buffer, filters) ==
    IF buffer = <<>> THEN <<>>
    ELSE LET event == Head(buffer)
             search_term == lower(filters.search)
             skip == \/ filters.services # {} /\ event.service \notin filters.services
                     \/ filters.level # "" /\ event.level # filters.level
                     \/ /\ search_term # ""
                        /\ ~IsSubstring(search_term, lower(event.message))
         IN  (IF skip THEN <<>> ELSE <<event>>) \o FilterEvents(Tail(buffer), filters)

_send_filtered_logs(filters) == RecentEvents(FilterEvents(event_buffer, filters))

(* The viewer sends a request; it waits in the socket until the endpoint   *)
(* reads it.                                                               *)
_ask(v, requests) ==
    /\ view[v].state \in {"replay", "live"}
    /\ ~view[v].broken
    /\ view[v].asked < MaxRequests
    /\ \E r \in requests :
         view' = [view EXCEPT ![v].inbox = Append(@, r), ![v].asked = @ + 1]
    /\ UNCHANGED <<hub, event_buffer, dropped_events, connections, websockets,
                   ui_websockets, pending_messages, flush_tasks, event_cache, prod,
                   arrived, owed>>
    /\ UNCHANGED <<coordVars, extVars>>

ViewerAsk(v) == _ask(v, Requests)

(* The viewer sends a get_logs request with any of the criteria. *)
ViewerAskAny(v) == _ask(v, SnapshotRequests)

(* The receive loop of the endpoint: receive_text returns a request and    *)
(* _handle_ui_message answers it.                                          *)
_handle_ui_message(v) ==
    /\ view[v].state = "live"
    /\ ~view[v].broken
    /\ view[v].inbox # <<>>
    /\ LET data == Head(view[v].inbox)
           answer == IF data.type = "get_logs"
                     THEN SentAll("logs", _send_filtered_logs(data.filters))
                     ELSE <<Sent("pong", NoEvent)>>
       IN  view' = [view EXCEPT ![v].inbox = Tail(@), ![v].received = @ \o answer]
    /\ UNCHANGED <<hub, event_buffer, dropped_events, connections, websockets,
                   ui_websockets, pending_messages, flush_tasks, event_cache, prod,
                   arrived, owed>>
    /\ UNCHANGED <<coordVars, extVars>>

(* The connection of a viewer is lost: its next send or receive raises. *)
ViewerBreaks(v) ==
    /\ view[v].state \in {"replay", "live"}
    /\ ~view[v].broken
    /\ view' = [view EXCEPT ![v].broken = TRUE]
    /\ UNCHANGED <<hub, event_buffer, dropped_events, connections, websockets,
                   ui_websockets, pending_messages, flush_tasks, event_cache, prod,
                   arrived, owed>>
    /\ UNCHANGED <<coordVars, extVars>>

(* receive_text raises WebSocketDisconnect; finally: ui_websockets.discard *)
ViewerDisconnect(v) ==
    /\ view[v].state = "live"
    /\ view[v].broken
    /\ ui_websockets' = ui_websockets \ {v}
    /\ view' = [view EXCEPT ![v].state = "closed"]
    /\ UNCHANGED <<hub, event_buffer, dropped_events, connections, websockets,
                   pending_messages, flush_tasks, event_cache, prod, arrived, owed>>
    /\ UNCHANGED <<coordVars, extVars>>

---------------------------------------------------------------------------
(* client.py: the forwarding handler.                                      *)
(*                                                                         *)
(* The application in process p logs through handler[p] and its sender    *)
(* thread uses producer socket p (NumProducers is not below NumProcs).     *)
(* The capacity of the queue is scaled: QueueSize stands for buffer_size = 20000 of        *)
(* client.py:32.  emit runs on the thread of the application, the other    *)
(* steps on the sender thread of the handler; queue.Queue serialises the   *)
(* two.  A message the sender puts on its socket is handled by the hub in  *)
(* the same step, and a socket the sender leaves is unregistered by the    *)
(* hub in the same step.  The heartbeat messages change nothing that the   *)
(* model keeps.  The websockets package is installed.                      *)

QueueSize == 2
MaxRecords == 3

(* record.levelname of logging.INFO and of logging.WARNING *)
LevelNames == {"INFO", "WARNING"}

(* sender: position of the sender thread; records: the number of records   *)
(* the application logged; exc: the exception the last emit swallowed;     *)
(* outcome: how the last emit ended; backoff: "due" after a failed attempt *)
(* or a lost connection until the sender slept, "slept" after the sleep    *)
Handler0 ==
    [installed |-> FALSE, buffer_size |-> 0, log_queue |-> <<>>,
     is_connected |-> FALSE, should_stop |-> FALSE, sender |-> "none",
     records |-> 0, exc |-> "", outcome |-> "", backoff |-> "none"]

(* MohnitorForwardingHandler.__init__ and logging.getLogger().addHandler *)
MohnitorForwardingHandler(buffer_size) ==
    [Handler0 EXCEPT !.installed = TRUE, !.buffer_size = buffer_size,
                     !.sender = "loop"]

(* Mutant: Queue.put, which waits for a free slot. *)
put(q, maxsize, item) ==
    IF Len(q) >= maxsize THEN [queue |-> q, exc |-> "blocks"]
    ELSE [queue |-> Append(q, item), exc |-> ""]

(* Queue.put_nowait(item) on a queue of maxsize > 0 *)
put_nowait(q, maxsize, item) ==
    IF Len(q) >= maxsize THEN [queue |-> q, exc |-> "Full"]
    ELSE [queue |-> Append(q, item), exc |-> ""]

(* emit(record): LogEvent(...) raises ValueError for a level outside the   *)
(* five; except queue.Full: pass; except Exception: pass                   *)
emit(p) ==
    /\ handler[p].installed
    /\ handler[p].records < MaxRecords
    /\ \E levelname \in LevelNames :
         LET k == handler[p].records + 1
             log_event == Event(p, k, levelname, "text", MaxEventSize)
             done == IF _validate_level(log_event) /\ _validate_service(log_event)
                     THEN put_nowait(handler[p].log_queue, handler[p].buffer_size,
                                     log_event)
                     ELSE [queue |-> handler[p].log_queue, exc |-> "ValueError"]
         IN  handler' = [handler EXCEPT
                 ![p].log_queue = done.queue,
                 ![p].records = k,
                 ![p].exc = done.exc,
                 ![p].outcome = IF done.exc = "blocks" THEN "blocked"
                                ELSE IF done.exc \in {"", "Full", "ValueError"}
                                THEN "returned"
                                ELSE "raised"]
    /\ UNCHANGED <<coordVars, hubVars, clock, pureVars>>

(* The exceptions of websockets.connect and websocket.send *)
Exceptions == {"OSError", "ConnectionClosed"}

(* _send_events: except Exception catches them, the coroutine returns *)
_send_events(exc) == IF exc \in Exceptions THEN "returned" ELSE "raised"

(* _sender_loop after asyncio.run(self._send_events()):                    *)
(* except Exception: time.sleep(5)                                         *)
AfterRun(h, exc) ==
    [h EXCEPT !.sender = "loop",
              !.backoff = IF _send_events(exc) = "raised" THEN "slept" ELSE "due"]

(* _sender_loop: while not self.should_stop: asyncio.run(...), up to the   *)
(* await of websockets.connect                                             *)
SenderLoop(p) ==
    /\ handler[p].sender = "loop"
    /\ handler' = [handler EXCEPT ![p].sender = IF handler[p].should_stop THEN "done"
                                                ELSE "connecting"]
    /\ UNCHANGED <<coordVars, hubVars, clock, pureVars>>

(* websockets.connect(uri) and the first heartbeat.  No hub listens: the   *)
(* connect raises.  The hub refuses the connection, which carries no       *)
(* token, by closing it after the accept: the heartbeat raises, or it was  *)
(* sent before the close arrived.                                          *)
SenderConnect(p) ==
    /\ handler[p].sender = "connecting"
    /\ IF hub = NoHub
       THEN /\ handler' = [handler EXCEPT
                   ![p] = AfterRun([@ EXCEPT !.is_connected = FALSE], "OSError")]
            /\ UNCHANGED hubVars
       ELSE /\ _register(p, 0)
            /\ IF prod'[p].state = "open"
               THEN handler' = [handler EXCEPT ![p].is_connected = TRUE,
                                               ![p].sender = "connected",
                                               ![p].backoff = "none"]
               ELSE \E noticed \in BOOLEAN :
                      handler' = [handler EXCEPT
                          ![p] = IF noticed
                                 THEN AfterRun([@ EXCEPT !.is_connected = FALSE],
                                               "ConnectionClosed")
                                 ELSE [@ EXCEPT !.is_connected = TRUE,
                                                !.sender = "connected"]]
    /\ UNCHANGED <<coordVars, clock, pureVars>>

(* One round of the loop of _send_events: it ends when should_stop is set; *)
(* log_queue.get(timeout=1.0) and websocket.send, or the heartbeat when    *)
(* the queue is empty; except ConnectionClosed: break.  The record taken   *)
(* from the queue is gone when the send raises.                            *)
SenderSend(p) ==
    /\ handler[p].sender = "connected"
    /\ IF handler[p].should_stop
       THEN /\ handler' = [handler EXCEPT ![p].sender = "loop"]
            /\ IF prod[p].state = "open" THEN _unregister(p) ELSE UNCHANGED hubVars
       ELSE IF prod[p].state # "open"
       THEN /\ handler' = [handler EXCEPT
                   ![p] = AfterRun([@ EXCEPT !.log_queue =
                                       IF @ = <<>> THEN @ ELSE Tail(@)],
                                   "ConnectionClosed")]
            /\ UNCHANGED hubVars
       ELSE /\ handler[p].log_queue # <<>>
            /\ Len(arrived) < MaxEvents
            /\ handler' = [handler EXCEPT ![p].log_queue = Tail(@)]
            /\ _handle_client_message(p, [form |-> "log_event",
                                          payload |-> Head(handler[p].log_queue)])
            /\ UNCHANGED <<websockets, ui_websockets, view>>
    /\ UNCHANGED <<coordVars, clock, pureVars>>

(* close(): should_stop = True; the join waits two seconds at most *)
close(p) ==
    /\ handler[p].installed
    /\ ~handler[p].should_stop
    /\ handler' = [handler EXCEPT ![p].should_stop = TRUE]
    /\ UNCHANGED <<coordVars, hubVars, clock, pureVars>>

---------------------------------------------------------------------------
(* mohnitor.py: what enable_mohnitor does with the hub it found or the     *)
(* port it won.  The model keeps one hub session: a second hub that a      *)
(* second winner starts is not built.                                      *)

(* asyncio.create_task(coro): the task, or RuntimeError("no running event  *)
(* loop") in a thread that runs no loop                                    *)
create_task(running_loop) == IF running_loop THEN "task" ELSE "RuntimeError"

(* _start_hub_background: run_hub runs MohnitorHub(...) in a new thread,   *)
(* which has no running event loop when __init__ reaches its create_task   *)
(* (hub.py:80); except Exception: print                                    *)
run_hub(host, buffer_size) ==
    IF create_task(FALSE) = "RuntimeError" THEN NoHub
    ELSE MohnitorHub(host, buffer_size)

(* _connect_to_hub: the handler is built and added to the root logger *)
_connect_to_hub(p) == [handler EXCEPT ![p] = MohnitorForwardingHandler(QueueSize)]

(* if existing_hub: return _connect_to_hub(...)                            *)
(* else: hub_port = try_become_hub(...); except Exception: return False    *)
AfterDiscovery(p) ==
    /\ pc[p] = "discovered"
    /\ cfg[p].entry = "enable"
    /\ IF di[p].status = "raised"
       THEN /\ en' = [en EXCEPT ![p] = [result |-> "false", role |-> ""]]
            /\ pc' = [pc EXCEPT ![p] = "enabled"]
            /\ handler' = handler
       ELSE IF di[p].status = "found"
       THEN /\ en' = [en EXCEPT ![p] = [result |-> "true", role |-> "client"]]
            /\ pc' = [pc EXCEPT ![p] = "enabled"]
            /\ handler' = _connect_to_hub(p)
       ELSE /\ en' = en
            /\ pc' = [pc EXCEPT ![p] = "acq_create"]
            /\ handler' = handler
    /\ raced' = Raced(pc')
    /\ UNCHANGED <<hubVars, clock, pureVars>>
    /\ UNCHANGED <<lock, desc, hubAlive, hubPort, unbindable, remoteUp, cfg, el, di,
                   lock0>>

(* Mutant: the exception of try_become_hub leaves enable_mohnitor. *)
AfterElectionNoExcept(p) ==
    /\ pc[p] = "elected"
    /\ cfg[p].entry = "enable"
    /\ IF el[p].raised
       THEN en' = [en EXCEPT ![p] = [result |-> "raised", role |-> ""]]
       ELSE IF el[p].port = 0
       THEN en' = [en EXCEPT ![p] = [result |-> "false", role |-> ""]]
       ELSE en' = [en EXCEPT ![p] = [result |-> "true", role |-> "hub"]]
    /\ handler' = IF el[p].raised \/ el[p].port = 0 THEN handler ELSE _connect_to_hub(p)
    /\ hub' = IF el[p].raised \/ el[p].port = 0 \/ hub # NoHub THEN hub
              ELSE run_hub(cfg[p].host, QueueSize)
    /\ pc' = [pc EXCEPT ![p] = "enabled"]
    /\ UNCHANGED <<sessionVars, clock, pureVars>>
    /\ UNCHANGED <<lock, desc, hubAlive, hubPort, unbindable, remoteUp, cfg, el, di,
                   lock0, raced>>

(* if hub_port: _start_hub_background(...); time.sleep(1);                 *)
(* return _connect_to_hub(...); return False; except Exception: return     *)
(* False                                                                   *)
AfterElection(p) ==
    /\ pc[p] = "elected"
    /\ cfg[p].entry = "enable"
    /\ IF el[p].raised \/ el[p].port = 0
       THEN /\ en' = [en EXCEPT ![p] = [result |-> "false", role |-> ""]]
            /\ handler' = handler
            /\ hub' = hub
       ELSE /\ en' = [en EXCEPT ![p] = [result |-> "true", role |-> "hub"]]
            /\ handler' = _connect_to_hub(p)
            /\ hub' = IF hub # NoHub THEN hub ELSE run_hub(cfg[p].host, QueueSize)
    /\ pc' = [pc EXCEPT ![p] = "enabled"]
    /\ UNCHANGED <<sessionVars, clock, pureVars>>
    /\ UNCHANGED <<lock, desc, hubAlive, hubPort, unbindable, remoteUp, cfg, el, di,
                   lock0, raced>>

(* get_logger(service=..., enable_mohnitor=True) of an application run     *)
(* with the defaults: enable_mohnitor(service) with no MOHNITOR_REMOTE and *)
(* no MOHNITOR_DISABLE.  The applications of service api start when the    *)
(* call of auth has returned.                                              *)
StartInOrder(p) ==
    /\ pc[p] = "idle"
    /\ \/ ServiceName(p) = "auth"
       \/ \A q \in Procs : ServiceName(q) = "auth" => pc[q] = "enabled"
    /\ cfg' = [cfg EXCEPT ![p] = [entry |-> "enable", host |-> LOOPBACK,
                                  base_port |-> DefaultBasePort,
                                  remote |-> NoRemote, disable |-> FALSE]]
    /\ pc' = [pc EXCEPT ![p] = "disc_exists"]
    /\ UNCHANGED <<hubVars, extVars>>
    /\ UNCHANGED <<lock, desc, hubAlive, hubPort, unbindable, remoteUp, el, di, en,
                   lock0, raced>>

(* logger.info(...): the first record of the application *)
LogOnce(p) ==
    /\ handler[p].records = 0
    /\ emit(p)

(* GET /system: buffer_stats.total_events and client_stats.services *)
system ==
    [total_events |-> Len(event_buffer),
     services |-> {connections[c].service : c \in DOMAIN connections}]

---------------------------------------------------------------------------
(* types.py: LogEvent with all its fields, to_dict and from_dict.  An      *)
(* optional value is <<>> for None and <<x>> for x; the context is the set *)
(* of its keys.                                                            *)

MaxSeconds == 2

(* datetime: the second, the microsecond and the UTC offset ("" for a      *)
(* naive datetime)                                                         *)
Datetimes ==
    [sec : 1 .. MaxSeconds, usec : {0, 5}, tz : {"", "+00:00"}]

(* datetime.isoformat(): the fraction is written when microsecond is not 0 *)
isoformat(dt) ==
    [sec |-> dt.sec,
     frac |-> IF dt.usec = 0 THEN <<>> ELSE <<dt.usec>>,
     offset |-> dt.tz]

(* Mutant: the fraction of the second is not read. *)
fromisoformat_seconds(str) ==
    [sec |-> str.sec, usec |-> 0, tz |-> str.offset]

(* datetime.fromisoformat(str) *)
fromisoformat(str) ==
    [sec |-> str.sec,
     usec |-> IF str.frac = <<>> THEN 0 ELSE str.frac[1],
     tz |-> str.offset]

(* if s.endswith("Z"): s = s[:-1] + "+00:00" *)
ReplaceZ(str) == IF str.offset = "Z" THEN [str EXCEPT !.offset = "+00:00"] ELSE str

(* The arguments of LogEvent(...): a level outside the five and an empty   *)
(* service among them, every optional absent or present.                   *)
LogEventArgs ==
    [timestamp : Datetimes,
     level : {"INFO", "WARN", "TRACE"},
     service : {"auth", ""},
     message : {"text"},
     logger : {"root"},
     trace_id : {<<>>, <<"t-1">>},
     context : {{}, {"user"}},
     source_host : {"", "localhost"},
     source_pid : {0, 7},
     received_at : {<<>>} \cup {<<dt>> : dt \in Datetimes}]

NoLogEvent ==
    [timestamp |-> [sec |-> 0, usec |-> 0, tz |-> ""], level |-> "", service |-> "",
     message |-> "", logger |-> "", trace_id |-> <<>>, context |-> {},
     source_host |-> "", source_pid |-> 0, received_at |-> <<>>]

(* LogEvent.to_dict *)
to_dict(e) ==
    [timestamp |-> isoformat(e.timestamp),
     level |-> e.level,
     service |-> e.service,
     message |-> e.message,
     logger |-> e.logger,
     trace_id |-> e.trace_id,
     context |-> e.context,
     source_host |-> e.source_host,
     source_pid |-> e.source_pid,
     received_at |-> IF e.received_at # <<>> THEN <<isoformat(e.received_at[1])>>
                     ELSE <<>>]

NoData == to_dict(NoLogEvent)

(* LogEvent.from_dict, up to the call of cls(...) *)
LogEvent_from_dict(data) ==
    [timestamp |-> fromisoformat(ReplaceZ(data.timestamp)),
     level |-> data.level,
     service |-> data.service,
     message |-> data.message,
     logger |-> data.logger,
     trace_id |-> data.trace_id,
     context |-> data.context,
     source_host |-> data.source_host,
     source_pid |-> data.source_pid,
     received_at |-> IF data.received_at # <<>>
                     THEN <<fromisoformat(ReplaceZ(data.received_at[1]))>>
                     ELSE <<>>]

Roundtrip0 ==
    [stage |-> "none", event |-> NoLogEvent, data |-> NoData, restored |-> NoLogEvent]

(* LogEvent(...): __post_init__ raises ValueError for an invalid level or  *)
(* service                                                                 *)
NewLogEvent ==
    /\ roundtrip.stage = "args"
    /\ roundtrip' = [roundtrip EXCEPT !.stage =
                         IF _validate_level(roundtrip.event)
                            /\ _validate_service(roundtrip.event)
                         THEN "event" ELSE "raised"]
    /\ UNCHANGED <<coordVars, hubVars, handler, clock, batcher, lru>>

(* event.to_dict() *)
ToDict ==
    /\ roundtrip.stage = "event"
    /\ roundtrip' = [roundtrip EXCEPT !.stage = "dict",
                                      !.data = to_dict(roundtrip.event)]
    /\ UNCHANGED <<coordVars, hubVars, handler, clock, batcher, lru>>

(* LogEvent.from_dict(data): cls(...) validates again *)
FromDict ==
    /\ roundtrip.stage = "dict"
    /\ LET e == LogEvent_from_dict(roundtrip.data)
       IN  roundtrip' = IF _validate_level(e) /\ _validate_service(e)
                        THEN [roundtrip EXCEPT !.stage = "restored", !.restored = e]
                        ELSE [roundtrip EXCEPT !.stage = "raised"]
    /\ UNCHANGED <<coordVars, hubVars, handler, clock, batcher, lru>>

---------------------------------------------------------------------------
(* performance.py: a LogEventCache on its own.  Keys and serialized events *)
(* are numbered.  used: the step of the last get or put of each cached     *)
(* key; puts: the value last put for each cached key; now: the steps so    *)
(* far; op: the last call, what it returned (0 is None) and the keys it    *)
(* removed.                                                                *)

MaxCacheSize == 2
NumKeys == 3
NumValues == 2
MaxOps == 4

CacheKeys == 1 .. NumKeys
CacheValues == 1 .. NumValues

NoCache ==
    [c |-> EmptyCache, max_size |-> 0, used |-> EmptyDict, puts |-> EmptyDict,
     now |-> 0, op |-> [name |-> "", key |-> 0, result |-> 0, evicted |-> {}]]

(* The entries of a dict whose keys are in keys *)
Restrict(d, keys) == [x \in (DOMAIN d) \cap keys |-> d[x]]

(* LogEventCache(max_size) *)
LogEventCache ==
    /\ lru.max_size = 0
    /\ \E max_size \in 1 .. MaxCacheSize :
         lru' = [NoCache EXCEPT !.max_size = max_size, !.op.name = "init"]
    /\ UNCHANGED <<coordVars, hubVars, handler, clock, roundtrip, batcher>>

(* get(event_key) *)
LruGet ==
    /\ lru.max_size > 0
    /\ lru.now < MaxOps
    /\ \E key \in CacheKeys :
         LET hit == key \in DOMAIN lru.c.cache
             after == IF hit THEN CacheGet(lru.c, key) ELSE lru.c
         IN  lru' = [lru EXCEPT
                 !.c = after,
                 !.now = @ + 1,
                 !.used = IF hit THEN DictPut(@, key, lru.now + 1) ELSE @,
                 !.op = [name |-> "get", key |-> key,
                         result |-> IF hit THEN lru.c.cache[key] ELSE 0,
                         evicted |-> (DOMAIN lru.c.cache) \ DOMAIN after.cache]]
    /\ UNCHANGED <<coordVars, hubVars, handler, clock, roundtrip, batcher>>

(* put(event_key, serialized_event) *)
LruPut ==
    /\ lru.max_size > 0
    /\ lru.now < MaxOps
    /\ \E key \in CacheKeys, value \in CacheValues :
         LET after == Cache_put(lru.c, lru.max_size, key, value)
         IN  lru' = [lru EXCEPT
                 !.c = after,
                 !.now = @ + 1,
                 !.used = Restrict(DictPut(@, key, lru.now + 1), DOMAIN after.cache),
                 !.puts = Restrict(DictPut(@, key, value), DOMAIN after.cache),
                 !.op = [name |-> "put", key |-> key, result |-> 0,
                         evicted |-> (DOMAIN lru.c.cache) \ DOMAIN after.cache]]
    /\ UNCHANGED <<coordVars, hubVars, handler, clock, roundtrip, batcher>>

---------------------------------------------------------------------------
(* performance.py: a MessageBatcher with one subscriber whose send_text    *)
(* may suspend the task that awaits it.  The messages are numbered in the  *)
(* order of add_message.  tasks: the _send_batch tasks created and not     *)
(* started; flights: the _send_batch calls suspended in send_text; sent:   *)
(* the batches the subscriber got.                                         *)

MaxMessages == 3

MessageBatcher ==
    [pending_messages |-> <<>>, added |-> 0, tasks |-> 0, flights |-> <<>>,
     timer |-> "sleeps", sent |-> <<>>]

(* batch = {"events": pending_messages, "count": len(pending_messages)};   *)
(* batch_json = json.dumps(batch); await ws.send_text(batch_json)          *)
SendText(b) ==
    [b EXCEPT !.sent = Append(@, [events |-> b.pending_messages,
                                  count |-> Len(b.pending_messages)])]

(* pending_messages.clear() *)
Clear(b) == [b EXCEPT !.pending_messages = <<>>]

(* add_message(message) *)
add_message ==
    /\ batcher.added < MaxMessages
    /\ LET pending == Append(batcher.pending_messages, batcher.added + 1)
       IN  batcher' = [batcher EXCEPT
               !.pending_messages = pending,
               !.added = @ + 1,
               !.tasks = IF Len(pending) >= BatchSize THEN @ + 1 ELSE @]
    /\ UNCHANGED <<coordVars, hubVars, handler, clock, roundtrip, lru>>

(* _send_batch begins, as a task of add_message or awaited by start_timer  *)
(* (which ticks again only when it has returned): nothing pending, return; *)
(* else the batch is serialized and handed to send_text, which returns at  *)
(* once or suspends the call.                                              *)
SendBatch ==
    /\ \E by \in {"task", "timer"}, suspends \in BOOLEAN :
         /\ IF by = "task" THEN batcher.tasks > 0
            ELSE batcher.timer = "sleeps" /\ batcher.pending_messages # <<>>
         /\ LET started == [batcher EXCEPT !.tasks = IF by = "task" THEN @ - 1 ELSE @]
            IN  batcher' =
                  IF batcher.pending_messages = <<>> THEN started
                  ELSE IF suspends
                  THEN [SendText(started) EXCEPT
                           !.flights = Append(@, by),
                           !.timer = IF by = "timer" THEN "awaits" ELSE @]
                  ELSE Clear(SendText(started))
    /\ UNCHANGED <<coordVars, hubVars, handler, clock, roundtrip, lru>>

(* A suspended _send_batch goes on after its send_text: subscribers -=      *)
(* disconnected; pending_messages.clear(); last_batch_time = time.time()   *)
SendBatchResumes ==
    /\ \E i \in 1 .. Len(batcher.flights) :
         batcher' = [Clear(batcher) EXCEPT
             !.flights = SubSeq(@, 1, i - 1) \o SubSeq(@, i + 1, Len(@)),
             !.timer = IF batcher.flights[i] = "timer" THEN "sleeps" ELSE @]
    /\ UNCHANGED <<coordVars, hubVars, handler, clock, roundtrip, lru>>

---------------------------------------------------------------------------
(* Initial states *)

InitLocks == {NoLock, LockOf(0, DeadPid), LockOf(0, 0)}

(* No hub session: the hub object is not built. *)
NoHubSession ==
    /\ hub = NoHub
    /\ event_buffer = <<>>
    /\ dropped_events = 0
    /\ connections = EmptyDict
    /\ websockets = EmptyDict
    /\ ui_websockets = {}
    /\ pending_messages = <<>>
    /\ flush_tasks = 0
    /\ event_cache = EmptyCache
    /\ prod = [p \in Producers |-> Prod0]
    /\ view = [v \in Viewers |-> View0]
    /\ arrived = <<>>
    /\ owed = [v \in Viewers |-> {}]

(* No application has a forwarding handler. *)
NoHandlers ==
    /\ handler = [p \in Procs |-> Handler0]
    /\ clock = Clock0
    /\ roundtrip = Roundtrip0
    /\ batcher = MessageBatcher
    /\ lru = NoCache

InitProcs ==
    /\ NoHubSession
    /\ NoHandlers
    /\ pc = [p \in Procs |-> "idle"]
    /\ cfg = [p \in Procs |-> Cfg0]
    /\ el = [p \in Procs |-> El0]
    /\ di = [p \in Procs |-> Di0]
    /\ en = [p \in Procs |-> En0]
    /\ raced = FALSE

InitElection ==
    /\ lock \in InitLocks
    /\ lock0 = lock
    /\ desc = NoDesc
    /\ hubAlive = FALSE
    /\ hubPort = DefaultBasePort
    /\ unbindable \in {{}, {DefaultBasePort}, DefaultPorts}
    /\ remoteUp = FALSE
    /\ InitProcs

NextElection ==
    \E p \in Procs :
        \/ CallElection(p)
        \/ AcquireCreate(p)
        \/ AcquireWrite(p)
        \/ AcquireCheck(p)
        \/ AcquireUnlink(p)
        \/ FindPort(p)
        \/ SaveOpen(p)
        \/ SaveWrite(p)
        \/ _release_lock(p)

SpecElection == InitElection /\ [][NextElection]_vars

(* The descriptor files a process can find: none, not JSON, the descriptor *)
(* of the hub process, one of a pid that never lived, one naming a live    *)
(* process that serves no hub, one whose fields from_dict rejects.         *)
InitDescs ==
    {NoDesc, GarbageDesc(0), EmptyDesc(0),
     JsonDesc(0, LOOPBACK, hubPort, HubPid, 0),
     JsonDesc(0, LOOPBACK, DefaultBasePort, DeadPid, 0),
     JsonDesc(0, LOOPBACK, DefaultBasePort + 1, 1, 0),
     JsonDesc(0, "0.0.0.0", hubPort, HubPid, 0)}

InitDiscovery ==
    /\ lock = NoLock
    /\ lock0 = lock
    /\ hubAlive \in BOOLEAN
    /\ hubPort \in {DefaultBasePort, DefaultBasePort + 2}
    /\ desc \in InitDescs
    /\ unbindable = {}
    /\ remoteUp \in BOOLEAN
    /\ InitProcs

NextDiscovery ==
    \/ HubDies
    \/ \E p \in Procs :
        \/ CallDiscover(p)
        \/ DiscRemote(p)
        \/ DiscExists(p)
        \/ DiscRead(p)
        \/ DiscHealth(p)
        \/ DiscUnlink(p)
        \/ DiscProbe(p)

SpecDiscovery == InitDiscovery /\ [][NextDiscovery]_vars

Init ==
    /\ lock \in InitLocks
    /\ lock0 = lock
    /\ hubAlive \in BOOLEAN
    /\ hubPort = DefaultBasePort
    /\ desc \in {NoDesc, GarbageDesc(0), JsonDesc(0, LOOPBACK, hubPort, HubPid, 0)}
    /\ unbindable \in {{}, DefaultPorts}
    /\ remoteUp = FALSE
    /\ InitProcs

Next ==
    \/ HubDies
    \/ \E p \in Procs :
        \/ CallEnable(p)
        \/ DiscRemote(p)
        \/ DiscExists(p)
        \/ DiscRead(p)
        \/ DiscHealth(p)
        \/ DiscUnlink(p)
        \/ DiscProbe(p)
        \/ AfterDiscovery(p)
        \/ AcquireCreate(p)
        \/ AcquireWrite(p)
        \/ AcquireCheck(p)
        \/ AcquireUnlink(p)
        \/ FindPort(p)
        \/ SaveOpen(p)
        \/ SaveWrite(p)
        \/ _release_lock(p)
        \/ AfterElection(p)

Spec == Init /\ [][Next]_vars

(* Scenario B: the hub process published its descriptor and may die; the   *)
(* applications start with the default arguments and no override           *)
(* (get_logger(service=..., enable_mohnitor=True)).                        *)
StartApp(p) ==
    /\ p \in LateApps
    /\ pc[p] = "idle"
    /\ cfg' = [cfg EXCEPT ![p] = [Cfg0 EXCEPT !.entry = "enable"]]
    /\ pc' = [pc EXCEPT ![p] = "disc_exists"]
    /\ UNCHANGED <<hubVars, extVars>>
    /\ UNCHANGED <<lock, desc, hubAlive, hubPort, unbindable, remoteUp, el, di, en,
                   lock0, raced>>

InitFailover ==
    /\ lock \in InitLocks
    /\ lock0 = lock
    /\ hubAlive \in BOOLEAN
    /\ hubPort \in {DefaultBasePort, DefaultBasePort + 1}
    /\ desc = JsonDesc(0, LOOPBACK, hubPort, HubPid, 0)
    /\ unbindable \in {{}, {DefaultBasePort}}
    /\ remoteUp = FALSE
    /\ InitProcs

NextFailover ==
    \/ HubDies
    \/ \E p \in Procs :
        \/ StartApp(p)
        \/ DiscExists(p)
        \/ DiscRead(p)
        \/ DiscHealth(p)
        \/ DiscUnlink(p)
        \/ DiscProbe(p)
        \/ AfterDiscovery(p)
        \/ AcquireCreate(p)
        \/ AcquireWrite(p)
        \/ AcquireCheck(p)
        \/ AcquireUnlink(p)
        \/ FindPort(p)
        \/ SaveOpen(p)
        \/ SaveWrite(p)
        \/ _release_lock(p)
        \/ AfterElection(p)

SpecFailover == InitFailover /\ [][NextFailover]_vars

(* Start-up of the first NumLateApps processes with any arguments and any  *)
(* environment; the other processes never call enable_mohnitor.            *)
NextEnable ==
    \/ HubDies
    \/ \E p \in LateApps :
        \/ CallEnable(p)
        \/ DiscRemote(p)
        \/ DiscExists(p)
        \/ DiscRead(p)
        \/ DiscHealth(p)
        \/ DiscUnlink(p)
        \/ DiscProbe(p)
        \/ AfterDiscovery(p)
        \/ AcquireCreate(p)
        \/ AcquireWrite(p)
        \/ AcquireCheck(p)
        \/ AcquireUnlink(p)
        \/ FindPort(p)
        \/ SaveOpen(p)
        \/ SaveWrite(p)
        \/ _release_lock(p)
        \/ AfterElection(p)

SpecEnable == Init /\ [][NextEnable]_vars

(* The hub session: one hub built with a host and a requested buffer size; *)
(* no process of the coordination part runs.                               *)
NoCoordination ==
    /\ lock = NoLock
    /\ lock0 = lock
    /\ desc = NoDesc
    /\ hubAlive = FALSE
    /\ hubPort = DefaultBasePort
    /\ unbindable = {}
    /\ remoteUp = FALSE
    /\ pc = [p \in Procs |-> "idle"]
    /\ cfg = [p \in Procs |-> Cfg0]
    /\ el = [p \in Procs |-> El0]
    /\ di = [p \in Procs |-> Di0]
    /\ en = [p \in Procs |-> En0]
    /\ raced = FALSE

RequestedSizes == {BufferBudget, BufferBudget + 1}

InitHub ==
    /\ NoCoordination
    /\ NoHandlers
    /\ hub \in {MohnitorHub(h, b) : h \in HubHosts, b \in RequestedSizes}
    /\ event_buffer = <<>>
    /\ dropped_events = 0
    /\ connections = EmptyDict
    /\ websockets = EmptyDict
    /\ ui_websockets = {}
    /\ pending_messages = <<>>
    /\ flush_tasks = 0
    /\ event_cache = EmptyCache
    /\ prod = [p \in Producers |-> Prod0]
    /\ view = [v \in Viewers |-> View0]
    /\ arrived = <<>>
    /\ owed = [v \in Viewers |-> {}]

(* Scenario A: auth starts, then api, nothing is there before; each logs   *)
(* once and the sender threads run.                                        *)
InitScenario ==
    /\ NoCoordination
    /\ NoHubSession
    /\ NoHandlers

NextScenario ==
    \E p \in Procs :
        \/ StartInOrder(p)
        \/ DiscExists(p)
        \/ DiscRead(p)
        \/ DiscHealth(p)
        \/ DiscUnlink(p)
        \/ DiscProbe(p)
        \/ AfterDiscovery(p)
        \/ AcquireCreate(p)
        \/ AcquireWrite(p)
        \/ FindPort(p)
        \/ SaveOpen(p)
        \/ SaveWrite(p)
        \/ _release_lock(p)
        \/ AfterElection(p)
        \/ LogOnce(p)
        \/ SenderLoop(p)
        \/ SenderConnect(p)

SpecScenario == InitScenario /\ [][NextScenario]_vars

(* The round trip of a LogEvent built from any of the arguments. *)
InitRoundtrip ==
    /\ NoCoordination
    /\ NoHubSession
    /\ handler = [p \in Procs |-> Handler0]
    /\ clock = Clock0
    /\ batcher = MessageBatcher
    /\ lru = NoCache
    /\ roundtrip \in {[Roundtrip0 EXCEPT !.stage = "args", !.event = a] :
                          a \in LogEventArgs}

NextRoundtrip ==
    \/ NewLogEvent
    \/ ToDict
    \/ FromDict

SpecRoundtrip == InitRoundtrip /\ [][NextRoundtrip]_vars

(* The session of a hub that was just built. *)
EmptySession ==
    /\ event_buffer = <<>>
    /\ dropped_events = 0
    /\ connections = EmptyDict
    /\ websockets = EmptyDict
    /\ ui_websockets = {}
    /\ pending_messages = <<>>
    /\ flush_tasks = 0
    /\ event_cache = EmptyCache
    /\ prod = [p \in Producers |-> Prod0]
    /\ view = [v \in Viewers |-> View0]
    /\ arrived = <<>>
    /\ owed = [v \in Viewers |-> {}]

(* A hub process starts (run) where an old descriptor was left behind,     *)
(* while processes call discover_hub.                                      *)
InitStale ==
    /\ lock = NoLock
    /\ lock0 = lock
    /\ desc \in {JsonDesc(0, LOOPBACK, DefaultBasePort, DeadPid, 0), GarbageDesc(0)}
    /\ hubAlive = FALSE
    /\ hubPort = DefaultBasePort
    /\ unbindable = {}
    /\ remoteUp = FALSE
    /\ pc = [p \in Procs |-> "idle"]
    /\ cfg = [p \in Procs |-> Cfg0]
    /\ el = [p \in Procs |-> El0]
    /\ di = [p \in Procs |-> Di0]
    /\ en = [p \in Procs |-> En0]
    /\ raced = FALSE
    /\ NoHandlers
    /\ hub = MohnitorHub(LOOPBACK, BufferBudget)
    /\ EmptySession

NextStale ==
    \/ save_descriptor
    \/ uvicorn_run
    \/ \E p \in Procs :
        \/ CallDiscover(p)
        \/ DiscRemote(p)
        \/ DiscExists(p)
        \/ DiscRead(p)
        \/ DiscHealth(p)
        \/ DiscUnlink(p)
        \/ DiscProbe(p)

SpecStale == InitStale /\ [][NextStale]_vars

(* A hub on the loopback address or on all interfaces runs and has         *)
(* published its descriptor; the applications start with the defaults,     *)
(* find it and forward their records.                                      *)
InitClient ==
    /\ lock = NoLock
    /\ lock0 = lock
    /\ hubAlive = TRUE
    /\ remoteUp = TRUE
    /\ hubPort = DefaultBasePort
    /\ unbindable = {}
    /\ pc = [p \in Procs |-> "idle"]
    /\ cfg = [p \in Procs |-> Cfg0]
    /\ el = [p \in Procs |-> El0]
    /\ di = [p \in Procs |-> Di0]
    /\ en = [p \in Procs |-> En0]
    /\ raced = FALSE
    /\ NoHandlers
    /\ hub \in {MohnitorHub(LOOPBACK, BufferBudget), MohnitorHub("0.0.0.0", BufferBudget)}
    /\ desc = create_descriptor(hub)
    /\ EmptySession

NextClient ==
    \E p \in Procs :
        \/ StartInOrder(p)
        \/ DiscExists(p)
        \/ DiscRead(p)
        \/ DiscHealth(p)
        \/ AfterDiscovery(p)
        \/ LogOnce(p)
        \/ SenderLoop(p)
        \/ SenderConnect(p)
        \/ SenderSend(p)

SpecClient == InitClient /\ [][NextClient]_vars

(* The cache on its own. *)
NextLru ==
    \/ LogEventCache
    \/ LruGet
    \/ LruPut

SpecLru == InitScenario /\ [][NextLru]_vars

(* The batcher on its own. *)
NextBatcher ==
    \/ add_message
    \/ SendBatch
    \/ SendBatchResumes

SpecBatcher == InitScenario /\ [][NextBatcher]_vars

(* The registry: instances of any service connect, disconnect and connect *)
(* again.                                                                  *)
NextRegistry ==
    \E p \in Producers :
        \/ ConnectAs(p)
        \/ ProducerDisconnect(p)
        \/ Reopen(p)

SpecRegistry == InitHub /\ [][NextRegistry]_vars

(* Descriptors: processes that call try_become_hub with any host, and a   *)
(* hub on any host that publishes its own descriptor.                      *)
NextDescriptor ==
    \/ save_descriptor
    \/ \E p \in Procs :
        \/ CallElectionOn(p)
        \/ AcquireCreate(p)
        \/ AcquireWrite(p)
        \/ AcquireCheck(p)
        \/ AcquireUnlink(p)
        \/ FindPort(p)
        \/ SaveOpen(p)
        \/ SaveWrite(p)
        \/ _release_lock(p)

SpecDescriptor == InitHub /\ [][NextDescriptor]_vars

(* Ingest: producers of any kind against a hub on any host, no viewer. *)
NextIngest ==
    \E p \in Producers :
        \/ ProducerConnect(p)
        \/ ProducerSend(p)
        \/ ProducerDisconnect(p)

SpecIngest == InitHub /\ [][NextIngest]_vars

(* Streaming: forwarding handlers and viewers on a hub bound to 127.0.0.1. *)
InitStream ==
    /\ InitHub
    /\ hub.host = LOOPBACK

NextStream ==
    \/ RunFlushTask
    \/ TimerFlush
    \/ \E p \in Producers :
        \/ ForwarderConnect(p)
        \/ ForwarderSend(p)
    \/ \E v \in Viewers :
        \/ ViewerConnect(v)
        \/ ViewerReplaySend(v)
        \/ ViewerBreaks(v)
        \/ ViewerDisconnect(v)

SpecStream == InitStream /\ [][NextStream]_vars

(* The ring buffer: forwarding handlers come, send and go; no viewer. *)
NextRing ==
    \E p \in Producers :
        \/ ForwarderConnect(p)
        \/ ForwarderSend(p)
        \/ ProducerDisconnect(p)

SpecRing == InitStream /\ [][NextRing]_vars

(* Replay: the first NumReplayProducers forwarding handlers and the first  *)
(* NumReplayViewers viewers, whose connections hold.                       *)
ReplayViewers == {v \in Viewers : v <= NumReplayViewers}
ReplayProducers == {p \in Producers : p <= NumReplayProducers}

NextReplay ==
    \/ RunFlushTask
    \/ TimerFlush
    \/ \E p \in ReplayProducers :
        \/ ForwarderConnect(p)
        \/ ForwarderSend(p)
    \/ \E v \in ReplayViewers :
        \/ ViewerConnect(v)
        \/ ViewerReplaySend(v)

SpecReplay == InitStream /\ [][NextReplay]_vars

(* Viewers with any token on a hub on any host that producers with the    *)
(* right token feed.                                                       *)
NextPeek ==
    \/ \E p \in ReplayProducers :
        \/ ProducerConnect(p)
        \/ ProducerSend(p)
    \/ \E v \in ReplayViewers :
        \/ ViewerConnectAny(v)
        \/ ViewerReplaySend(v)

SpecPeek == InitHub /\ [][NextPeek]_vars

(* Viewers that ask: the events of one service, the replay and the        *)
(* requests of the first NumReplayViewers viewers.                         *)
NextViewer ==
    \/ \E p \in {q \in Producers : ServiceName(q) = "auth"} :
        \/ ForwarderConnect(p)
        \/ ForwarderSend(p)
    \/ \E v \in ReplayViewers :
        \/ ViewerConnect(v)
        \/ ViewerReplaySend(v)
        \/ ViewerAsk(v)
        \/ _handle_ui_message(v)

SpecViewer == InitStream /\ [][NextViewer]_vars

(* Snapshots: a producer of service auth and a viewer that asks for the    *)
(* buffered events with any of the criteria.                               *)
NextSnapshot ==
    \/ \E p \in {q \in Producers : ServiceName(q) = "auth"} :
        \/ ForwarderConnect(p)
        \/ ForwarderSend(p)
    \/ \E v \in ReplayViewers :
        \/ ViewerConnect(v)
        \/ ViewerReplaySend(v)
        \/ ViewerAskAny(v)
        \/ _handle_ui_message(v)

SpecSnapshot == InitStream /\ [][NextSnapshot]_vars

(* The batcher with its clock: one producer of service auth, a viewer that *)
(* makes the hub batch, the flush tasks and the timer.  The event loop     *)
(* runs the timer task when its sleep is over, and time goes on.           *)
NextBatch ==
    \/ RunFlushTask
    \/ Tick
    \/ start_timer
    \/ \E p \in {q \in Producers : ServiceName(q) = "auth"} :
        \/ ForwarderConnect(p)
        \/ ForwarderSend(p)
    \/ \E v \in ReplayViewers :
        \/ ViewerConnect(v)

SpecBatch ==
    InitStream /\ [][NextBatch]_vars /\ WF_vars(Tick) /\ WF_vars(start_timer)

(* Forwarding: the application of service auth logs through a handler     *)
(* whose hub does not run, runs on 127.0.0.1 or runs on all interfaces.    *)
Handlers == {p \in Procs : ServiceName(p) = "auth"}

InitForwarder ==
    /\ NoCoordination
    /\ hub \in {NoHub, MohnitorHub(LOOPBACK, BufferBudget),
                MohnitorHub("0.0.0.0", BufferBudget)}
    /\ event_buffer = <<>>
    /\ dropped_events = 0
    /\ connections = EmptyDict
    /\ websockets = EmptyDict
    /\ ui_websockets = {}
    /\ pending_messages = <<>>
    /\ flush_tasks = 0
    /\ event_cache = EmptyCache
    /\ prod = [p \in Producers |-> Prod0]
    /\ view = [v \in Viewers |-> View0]
    /\ arrived = <<>>
    /\ owed = [v \in Viewers |-> {}]
    /\ handler = [p \in Procs |->
                     IF p \in Handlers THEN MohnitorForwardingHandler(QueueSize)
                     ELSE Handler0]
    /\ clock = Clock0
    /\ roundtrip = Roundtrip0
    /\ batcher = MessageBatcher
    /\ lru = NoCache

NextForwarder ==
    \E p \in Handlers :
        \/ emit(p)
        \/ SenderLoop(p)
        \/ SenderConnect(p)
        \/ SenderSend(p)
        \/ close(p)
        \/ ProducerDisconnect(p)

SpecForwarder == InitForwarder /\ [][NextForwarder]_vars


---------------------------------------------------------------------------
(* Election claims, checked under SpecElection *)

Others(p) == Procs \ {p}
Returned(p) == pc[p] = "elected"
Winners == {p \in Procs : Returned(p) /\ el[p].port # 0}

(* try_become_hub can find a port and build a descriptor for it *)
CanWin(p) ==
    LET port == _find_available_port(cfg[p].host, cfg[p].base_port)
    IN  port # 0 /\ _validate_port(port)

(* C1: when all processes race try_become_hub concurrently, starting with  *)
(* no lock file (and a port can be bound), exactly one of them gets a port  *)
(* and all the others get none.                                            *)
C1_ExactlyOneWinner ==
    (/\ lock0 = NoLock
     /\ raced
     /\ \A p \in Procs : Returned(p) /\ CanWin(p) /\ ~el[p].raised)
    => Cardinality(Winners) = 1

(* C2: at every moment at most one process is between a successful         *)
(* _acquire_lock and its _release_lock.                                    *)
C2_MutualExclusion == Cardinality({p \in Procs : HoldsLock(pc[p])}) <= 1

(* C3: a process that alone finds a stale lock deletes it, acquires the     *)
(* lock after exactly one retry and succeeds; and no call of _acquire_lock  *)
(* ever retries more than once.                                            *)
C3_StaleLockRecovery ==
    /\ \A p \in Procs :
         (/\ Returned(p)
          /\ lock0.exists
          /\ CanWin(p)
          /\ \A q \in Others(p) : pc[q] = "idle")
         => (el[p].port # 0 /\ el[p].retries = 1)
    /\ \A p \in Procs : el[p].retries <= 1

(* C4: once a process that acquired the lock has left try_become_hub (with  *)
(* a port, with none, or by an exception), the lock file it created does    *)
(* not exist.                                                              *)
C4_LockReleasedOnExit ==
    \A p \in Procs :
        (Returned(p) /\ el[p].acquired) => ~(lock.exists /\ lock.ino = p)

(* C4 witness: one process left with a port, another left after acquiring   *)
(* the lock without one (no port, or the descriptor raised).               *)
C4_Witness ==
    \E p \in Procs, q \in Procs :
        /\ Returned(p) /\ el[p].acquired /\ el[p].port # 0
        /\ Returned(q) /\ el[q].acquired /\ el[q].port = 0 /\ el[q].raised

(* C5: an election that returns none without raising wrote no descriptor,   *)
(* deleted no lock file of a live holder, and left no lock of its own.     *)
C5_FailedElectionNoEffects ==
    \A p \in Procs :
        (Returned(p) /\ el[p].port = 0 /\ ~el[p].raised)
        => /\ ~el[p].wrote
           /\ ~el[p].clobbered
           /\ ~(lock.exists /\ lock.ino = p)

---------------------------------------------------------------------------
(* Discovery claims, checked under SpecDiscovery *)

Discovered(p) == pc[p] = "discovered"

(* C6: with no remote override and no hub answering the probe, a           *)
(* descriptor file that names a dead pid, fails its health check or does   *)
(* not parse makes discover_hub return none, and the file is gone after.   *)
C6_SelfHealing ==
    \A p \in Procs :
        (/\ Discovered(p)
         /\ cfg[p].remote = NoRemote
         /\ di[p].verdict \in {"dead_pid", "unhealthy", "invalid"}
         /\ di[p].probe_hit = 0)
        => (di[p].status = "none" /\ desc.kind = "absent")

(* C6 witness: a discovery that read a descriptor of a dead pid finished. *)
C6_Witness ==
    \E p \in Procs :
        /\ Discovered(p)
        /\ cfg[p].remote = NoRemote
        /\ di[p].verdict = "dead_pid"
        /\ di[p].probe_hit = 0
        /\ di[p].status = "none"

(* C7: when the remote override is set and its health check succeeds,      *)
(* discover_hub returns a descriptor for the override's host and port.     *)
C7_RemotePrecedence ==
    \A p \in Procs :
        (Discovered(p) /\ di[p].remote_ok)
        => /\ di[p].status = "found"
           /\ di[p].d.host = cfg[p].remote.host
           /\ di[p].d.port = IF cfg[p].remote.port = -1 THEN RemoteDefaultPort
                             ELSE cfg[p].remote.port

(* The descriptor file strategy would succeed in the current state. *)
FileSucceeds ==
    /\ ReadVerdict(desc) = "alive"
    /\ HealthyAt(desc.host, desc.port)

(* C8: the strategies are tried in the order override, file, probe; the    *)
(* first that succeeds gives the result, a failed one falls through to the *)
(* next, and none is returned only when all three fail.                    *)
C8_OrderedFallThrough ==
    \A p \in Procs :
        Discovered(p) =>
            /\ di[p].remote_ok =>
                 (di[p].status = "found" /\ di[p].d.host = cfg[p].remote.host)
            /\ (~di[p].remote_ok /\ di[p].verdict = "ok") =>
                 (di[p].status = "found" /\ di[p].d.kind = "json" /\ di[p].d.pid # 0)
            /\ (~di[p].remote_ok /\ di[p].verdict # "ok" /\ di[p].probe_hit # 0) =>
                 (di[p].status = "found" /\ di[p].d.port = di[p].probe_hit)
            /\ di[p].status = "none" =>
                 (/\ ~RemoteAnswers(cfg[p].remote)
                  /\ ~FileSucceeds
                  /\ ScanHealth(ProbeFirst, ProbeEnd) = 0)

(* C9: discover_hub never raises: it returns none or a valid descriptor.   *)
C9_NeverRaises ==
    \A p \in Procs :
        Discovered(p) =>
            \/ di[p].status = "none"
            \/ /\ di[p].status = "found"
               /\ HubDescriptor(di[p].d.host, di[p].d.port, di[p].d.pid, di[p].d.token)

---------------------------------------------------------------------------
(* Failover claim, checked under SpecFailover *)

(* C10: after the hub process died leaving its descriptor, a process that  *)
(* starts alone finds the descriptor stale and removes it, and its         *)
(* try_become_hub then returns a port and publishes a descriptor with that *)
(* port and the process's own pid.                                         *)
C10_Failover ==
    \A p \in Procs :
        (/\ di[p].verdict = "dead_pid"
         /\ \A q \in Others(p) : pc[q] = "idle")
        => /\ pc[p] # "disc_unlink" => ~(desc.kind = "json" /\ desc.pid = HubPid)
           /\ pc[p] \in {"elected", "enabled"} =>
                /\ el[p].port # 0
                /\ desc.kind = "json"
                /\ desc.pid = p
                /\ desc.port = el[p].port

(* C10 witness: the hub is dead, a process that read its stale descriptor  *)
(* has finished enable_mohnitor as the new hub.                            *)
C10_Witness ==
    \E p \in Procs :
        /\ ~hubAlive
        /\ di[p].verdict = "dead_pid"
        /\ pc[p] = "enabled"
        /\ en[p].role = "hub"
        /\ desc.pid = p

---------------------------------------------------------------------------
(* Start-up claims, checked under Spec *)

(* C11: a process that found no hub and lost the election, while another   *)
(* process won it, does not end enable_mohnitor without a hub: it ends as  *)
(* a client (of the winner).                                               *)
C11_LoserBecomesClient ==
    \A p \in Procs :
        (/\ cfg[p].entry = "enable"
         /\ pc[p] = "enabled"
         /\ di[p].status = "none"
         /\ el[p].port = 0
         /\ ~el[p].raised
         /\ \E q \in Others(p) : en[q].role = "hub")
        => en[p].role = "client"

(* C12: a process never reads the descriptor file in the state a writer    *)
(* left it in between opening it for writing and writing its content:      *)
(* every read of the file by discovery that happens while a process is     *)
(* inside _save_descriptor finds a complete JSON descriptor.               *)
C12_AtomicDescriptorWrite ==
    [][\A p \in Procs :
          (/\ pc[p] = "disc_read"
           /\ pc'[p] # "disc_read"
           /\ \E q \in Others(p) : pc[q] = "save_write")
          => desc.kind = "json"]_vars

---------------------------------------------------------------------------
(* Ring-buffer claims, checked under SpecRing: every message is a valid    *)
(* log_event, n is the number of events that arrived, c is buffer_size.    *)

(* C13: after n valid ingests the buffer holds min(n, c) events and        *)
(* dropped_events is max(0, n - c); so the buffer never exceeds c and a    *)
(* positive drop counter means the buffer is full.                         *)
C13_RingAccounting ==
    /\ \A i \in 1 .. Len(arrived) : ValidLogEvent(arrived[i])
    /\ Len(event_buffer) = Min(Len(arrived), hub.buffer_size)
    /\ dropped_events = Max(0, Len(arrived) - hub.buffer_size)
    /\ Len(event_buffer) <= hub.buffer_size
    /\ dropped_events > 0 => Len(event_buffer) = hub.buffer_size

(* Events of two producers arrived, more of them than the buffer holds. *)
C13_Witness ==
    /\ Len(arrived) > hub.buffer_size
    /\ dropped_events > 0
    /\ \E i, j \in 1 .. Len(arrived) : arrived[i].src # arrived[j].src

(* C14: the buffer holds the most recently ingested events in arrival      *)
(* order: an ingest into a full buffer removes the oldest event and stores *)
(* the new one.                                                            *)
C14_EvictionDropsOldest ==
    LET n == Len(arrived)
        kept == Min(n, hub.buffer_size)
    IN  event_buffer = SubSeq(arrived, n - kept + 1, n)

---------------------------------------------------------------------------
(* Streaming claims *)

(* The viewer was sent the event, in the replay, directly or in a batch. *)
Delivered(v, e) ==
    \E i \in 1 .. Len(view[v].received) :
        /\ view[v].received[i].via \in {"replay", "broadcast", "batch"}
        /\ view[v].received[i].ev = e

(* The batcher holds the payload the hub queued for the event: its own     *)
(* serialization or the cached one of its key.                             *)
Queued(e) == \E i \in 1 .. Len(pending_messages) : EventKey(pending_messages[i]) = EventKey(e)

(* C15: the events of one producer that a viewer was sent, in the replay,  *)
(* directly or in batches, reached it in the order the producer emitted    *)
(* them, also when events arrive during the viewer's replay.  Checked      *)
(* under SpecReplay.                                                       *)
C15_PerProducerOrder ==
    \A v \in Viewers :
        \A i, j \in 1 .. Len(view[v].received) :
            LET a == view[v].received[i]
                b == view[v].received[j]
            IN  (/\ i < j
                 /\ a.via \in {"replay", "broadcast", "batch"}
                 /\ b.via \in {"replay", "broadcast", "batch"}
                 /\ a.ev.src = b.ev.src)
                => a.ev.seq < b.ev.seq

(* A viewer was sent two events of one producer while its replay was not   *)
(* over and an event arrived during that replay.                           *)
C15_Witness ==
    \E v \in Viewers :
        /\ view[v].state = "replay"
        /\ owed[v] # {}
        /\ \E i, j \in 1 .. Len(view[v].received) :
               /\ i < j
               /\ view[v].received[i].via = "replay"
               /\ view[v].received[j].via = "replay"
               /\ view[v].received[i].ev.src = view[v].received[j].ev.src

(* C16: an event ingested while a viewer is connected, whose connection    *)
(* holds, is sent to that viewer: at every moment it has been sent or is   *)
(* still pending in the batcher.  Checked under SpecStream.                *)
C16_LiveDelivery ==
    \A v \in Viewers :
        (v \in ui_websockets /\ ~view[v].broken)
        => \A e \in owed[v] : Delivered(v, e) \/ Queued(e)

(* C17: a viewer whose connection failed does not keep an event from the   *)
(* other connected viewers: an event ingested while both were connected    *)
(* has been sent to the viewer whose connection holds, or is still         *)
(* pending.  Checked under SpecStream.                                     *)
C17_ViewerIsolation ==
    \A v, w \in Viewers :
        (/\ v # w
         /\ v \in ui_websockets
         /\ ~view[v].broken
         /\ view[w].broken)
        => \A e \in owed[v] \cap owed[w] :
               Delivered(v, e) \/ Queued(e)

---------------------------------------------------------------------------
(* Ingest claims, checked under SpecIngest *)

(* C18: the first message on a connection that is not valid JSON, has an   *)
(* unknown type or carries a payload that is not a valid LogEvent leaves   *)
(* the ring buffer, the drop counter and the connection registry as they   *)
(* were and the connection open.                                           *)
C18_MalformedDropped ==
    [][\A p \in Producers :
          (prod'[p].garbled /\ ~prod[p].garbled)
          => /\ event_buffer' = event_buffer
             /\ dropped_events' = dropped_events
             /\ connections' = connections
             /\ websockets' = websockets
             /\ prod'[p].state = "open"]_vars

(* C19: no event whose serialized size exceeds the limit is in the ring    *)
(* buffer, in a pending batch or among the messages sent to a viewer.      *)
C19_OversizedRejected ==
    /\ \A i \in 1 .. Len(event_buffer) : ~Oversized(event_buffer[i])
    /\ \A i \in 1 .. Len(pending_messages) : ~Oversized(pending_messages[i])
    /\ \A v \in Viewers : \A i \in 1 .. Len(view[v].received) :
           ~Oversized(view[v].received[i].ev)

(* C20: on a hub bound to a non-loopback host a producer that presented no *)
(* token or a wrong one is rejected, has no entry in the registry and no   *)
(* event of it is ingested; on a hub bound to a loopback host a producer   *)
(* that presented no token is registered.                                  *)
C20_ProducerAuth ==
    \A p \in Producers :
        /\ (/\ ~IsLoopback(hub.host)
            /\ prod[p].state # "new"
            /\ prod[p].token # hub.token)
           => /\ prod[p].state = "rejected"
              /\ \A c \in DOMAIN websockets : websockets[c] # p
              /\ \A i \in 1 .. Len(arrived) : arrived[i].src # p
        /\ (/\ IsLoopback(hub.host)
            /\ prod[p].state # "new"
            /\ prod[p].token = 0)
           => prod[p].state # "rejected"

---------------------------------------------------------------------------
(* Forwarding claims, checked under SpecForwarder *)

(* C21: emit never blocks and never raises, whatever the queue holds and   *)
(* whatever the connection does; an emit on a queue that holds buffer_size *)
(* items drops the new record and leaves the queued ones as they were; and *)
(* the queue never holds more than buffer_size items.                      *)
C21_Backpressure ==
    [][\A p \in Procs :
          /\ Len(handler'[p].log_queue) <= handler'[p].buffer_size
          /\ handler'[p].records # handler[p].records =>
                /\ handler'[p].outcome = "returned"
                /\ Len(handler[p].log_queue) >= handler[p].buffer_size =>
                      handler'[p].log_queue = handler[p].log_queue]_vars

(* An emit found the queue full and returned, with the socket open. *)
C21_Witness ==
    \E p \in Procs :
        /\ handler[p].exc = "Full"
        /\ handler[p].outcome = "returned"
        /\ Len(handler[p].log_queue) = handler[p].buffer_size
        /\ prod[p].state = "open"

(* C22: after a connection attempt failed or a connection was lost, the    *)
(* sender thread sleeps before it starts its next attempt, and it only     *)
(* ends once close() was called.                                           *)
C22_ReconnectBackoff ==
    [][\A p \in Procs :
          /\ (handler[p].sender = "loop" /\ handler'[p].sender = "connecting")
                => handler[p].backoff # "due"
          /\ handler'[p].sender = "done" => handler'[p].should_stop]_vars

---------------------------------------------------------------------------
(* Start-up claims, checked under SpecEnable *)

(* C23: enable_mohnitor returns True or False and never raises, whatever   *)
(* discovery, the election, the start of the hub and the handler do.       *)
C23_EnableNeverRaises ==
    \A p \in Procs :
        /\ en[p].result \in {"pending", "true", "false"}
        /\ pc[p] = "enabled" => en[p].result \in {"true", "false"}

(* try_become_hub raised inside enable_mohnitor, which returned False. *)
C23_Witness ==
    \E p \in Procs : pc[p] = "enabled" /\ el[p].raised /\ en[p].result = "false"

(* C24: with MOHNITOR_DISABLE=1 enable_mohnitor returns False and runs no  *)
(* discovery and no election, leaves the lock file and the descriptor file *)
(* as they are and installs no handler.                                    *)
C24_DisableOverride ==
    [][\A p \in Procs :
          /\ cfg'[p].disable =>
                /\ pc'[p] = "enabled"
                /\ en'[p] = [result |-> "false", role |-> ""]
                /\ di'[p] = Di0
                /\ el'[p] = El0
                /\ handler'[p] = Handler0
          /\ (cfg'[p].disable /\ ~cfg[p].disable) =>
                /\ lock' = lock
                /\ desc' = desc
                /\ handler' = handler
                /\ hub' = hub]_vars

(* A disabled call returned while a lock file and a descriptor file that   *)
(* discovery would have removed were there.                                *)
C24_Witness ==
    \E p \in Procs :
        /\ cfg[p].disable
        /\ pc[p] = "enabled"
        /\ en[p].result = "false"
        /\ desc.kind = "garbage"
        /\ lock # NoLock

---------------------------------------------------------------------------
(* Viewer claims, checked under SpecViewer *)

(* The n most recent events of a buffer, oldest first. *)
MostRecent(buffer, n) ==
    LET k == Min(n, Len(buffer))
    IN  [i \in 1 .. k |-> buffer[Len(buffer) - k + i]]

(* What the hub owes a viewer that connected when the buffer was backlog. *)
Backlog(v) ==
    SentAll("replay", MostRecent(view[v].backlog, ReplayLimit))
        \o <<Sent("stats", NoEvent)>>

C26_BatchFlushing ==
    /\ [][/\ (Len(pending_messages') > Len(pending_messages)
              /\ Len(pending_messages') >= BatchSize)
                 => flush_tasks' = flush_tasks + 1
          /\ (clock.sleep = 0 /\ clock'.sleep = MaxDelay) =>
                IF pending_messages # <<>> /\ clock.elapsed >= MaxDelay
                THEN pending_messages' = <<>> /\ clock'.elapsed = 0
                ELSE pending_messages' = pending_messages]_vars
    /\ (pending_messages # <<>>) ~> (pending_messages = <<>>)

(* Fewer than batch_size messages were ever batched for the viewer, and    *)
(* none is pending: the timer has sent them.                               *)
C26_Witness ==
    \E v \in ui_websockets :
        /\ owed[v] # {}
        /\ Cardinality(owed[v]) < BatchSize
        /\ flush_tasks = 0
        /\ pending_messages = <<>>
        /\ clock.elapsed < MaxDelay

(* C27: the capacity of the running hub's ring buffer is the memory budget *)
(* divided by the current average event size, whatever has been ingested.  *)
C27_AdaptiveBuffer ==
    hub # NoHub =>
        hub.buffer_size =
            optimize_buffer_size(BufferBudget * AvgEventSize * hub.avg_event_size.den,
                                 hub.avg_event_size.num)

(* C28: the descriptor that try_become_hub, or the hub with                *)
(* create_descriptor, has published carries a token exactly when its host  *)
(* is neither 127.0.0.1 nor localhost.                                     *)
C28_DescriptorToken ==
    desc.kind = "json" => (desc.token # 0 <=> ~IsLoopback(desc.host))

(* C29: the event that from_dict builds from the to_dict of a valid        *)
(* LogEvent has the value of the original in every field.                  *)
C29_LogEventRoundTrip ==
    roundtrip.stage = "restored" =>
        /\ roundtrip.restored.timestamp = roundtrip.event.timestamp
        /\ roundtrip.restored.level = roundtrip.event.level
        /\ roundtrip.restored.service = roundtrip.event.service
        /\ roundtrip.restored.message = roundtrip.event.message
        /\ roundtrip.restored.logger = roundtrip.event.logger
        /\ roundtrip.restored.trace_id = roundtrip.event.trace_id
        /\ roundtrip.restored.context = roundtrip.event.context
        /\ roundtrip.restored.source_host = roundtrip.event.source_host
        /\ roundtrip.restored.source_pid = roundtrip.event.source_pid
        /\ roundtrip.restored.received_at = roundtrip.event.received_at

(* An event with every optional absent, a timestamp with microseconds, has *)
(* gone through to_dict and from_dict.                                     *)
C29_Witness ==
    /\ roundtrip.stage = "restored"
    /\ roundtrip.event.trace_id = <<>>
    /\ roundtrip.event.context = {}
    /\ roundtrip.event.received_at = <<>>
    /\ roundtrip.event.source_host = ""
    /\ roundtrip.event.source_pid = 0
    /\ roundtrip.event.timestamp.usec # 0

(* C30: in Scenario A the call of auth returns with auth as the hub and    *)
(* the hub running, the call of api returns with api as a client of it,    *)
(* and once each has logged one INFO event and its sender has sent it, the *)
(* hub reports two events and the services auth and api.                   *)
C30_ScenarioA ==
    /\ \A p \in Procs :
          pc[p] = "enabled" =>
              IF ServiceName(p) = "auth"
              THEN en[p] = [result |-> "true", role |-> "hub"] /\ hub # NoHub
              ELSE en[p] = [result |-> "true", role |-> "client"]
    /\ (\A p \in Procs : /\ pc[p] = "enabled"
                          /\ handler[p].records = 1
                          /\ handler[p].exc = ""
                          /\ handler[p].log_queue = <<>>)
          => /\ system.total_events = NumProcs
             /\ system.services = {ServiceName(p) : p \in Procs}

---------------------------------------------------------------------------
(* Claims of the hub session and of the coordination, second part *)

(* C31: the registry has one entry for each open producer connection and   *)
(* no other: the open producers have distinct connection ids, each id is   *)
(* a key of websockets that leads to its producer, and connections and     *)
(* websockets have the same keys.                                          *)
C31_RegistryOneToOne ==
    LET open == {p \in Producers : prod[p].state = "open"}
    IN  /\ DOMAIN connections = DOMAIN websockets
        /\ \A p \in open : /\ prod[p].cid \in DOMAIN websockets
                            /\ websockets[prod[p].cid] = p
        /\ \A p, q \in open : p # q => prod[p].cid # prod[q].cid
        /\ Cardinality(DOMAIN connections) = Cardinality(open)

(* How often message m is in the batches the subscriber got. *)
TimesSent(m) ==
    Cardinality({<<i, j>> \in (1 .. Len(batcher.sent)) \X (1 .. MaxMessages) :
                    /\ j <= Len(batcher.sent[i].events)
                    /\ batcher.sent[i].events[j] = m})

(* C32: a message given to add_message is in no more than one batch, and   *)
(* it is in one as soon as it is not pending any more; the count of a      *)
(* batch is the number of its events.                                      *)
C32_BatcherExactlyOnce ==
    /\ \A m \in 1 .. batcher.added :
          /\ TimesSent(m) <= 1
          /\ TimesSent(m) = 0 =>
                \E j \in 1 .. Len(batcher.pending_messages) :
                    batcher.pending_messages[j] = m
    /\ \A i \in 1 .. Len(batcher.sent) :
          batcher.sent[i].count = Len(batcher.sent[i].events)

(* C33: the payload that the hub hands on for the viewers when it ingests  *)
(* an event is that event, with its own timestamp and source.              *)
C33_CacheTransparent ==
    [][Len(pending_messages') = Len(pending_messages) + 1 =>
          pending_messages'[Len(pending_messages')] = arrived'[Len(arrived')]]_vars

(* C34: the delete of a discovering process leaves a descriptor in place   *)
(* that is not the one the process read and rejected, and that is valid,   *)
(* has a live pid and a hub that answers.                                  *)
C34_DeletesOnlyValidated ==
    [][\A p \in Procs :
          (/\ pc[p] = "disc_unlink"
           /\ pc'[p] = "disc_probe"
           /\ desc # di[p].read
           /\ ReadVerdict(desc) = "alive"
           /\ HealthyAt(desc.host, desc.port))
          => desc' = desc]_vars

(* C35: the descriptor of the running hub carries the token the hub        *)
(* enforces, and an application that found the hub through it is not       *)
(* rejected when its forwarder connects.                                   *)
C35_DiscoveredNeverRejected ==
    /\ (hub # NoHub /\ desc.kind = "json" /\ desc.pid = HubPid)
          => desc.token = hub.token
    /\ \A p \in Procs :
          en[p] = [result |-> "true", role |-> "client"]
              => prod[p].state # "rejected"

(* C36: on a hub bound to a non-loopback host a viewer that connected with *)
(* a token other than the hub's, or with none, has received nothing.       *)
C36_ViewerAuth ==
    \A v \in Viewers :
        (/\ ~IsLoopback(hub.host)
         /\ view[v].state # "new"
         /\ view[v].token # hub.token)
        => view[v].received = <<>>

(* C37: an emit of a record of a standard level while the queue has free   *)
(* space appends one log_event to the queue.                               *)
C37_EveryLevelEnqueued ==
    [][\A p \in Procs :
          (/\ handler'[p].records = handler[p].records + 1
           /\ Len(handler[p].log_queue) < handler[p].buffer_size)
          => Len(handler'[p].log_queue) = Len(handler[p].log_queue) + 1]_vars

(* The cached key whose last get or put is the oldest *)
LeastRecentlyUsed(l) ==
    CHOOSE k \in DOMAIN l.used : \A x \in DOMAIN l.used : l.used[k] <= l.used[x]

(* C38: after every get and put the cache holds at most max_size entries   *)
(* and its access order lists exactly its keys, once each; a put of a new  *)
(* key into a full cache evicts exactly the least recently used key; a get *)
(* of a cached key returns the value last put for it and a get of another  *)
(* key returns None.                                                       *)
C38_LruCache ==
    [][LET keys == DOMAIN lru.c.cache
           keys2 == DOMAIN lru'.c.cache
           order2 == lru'.c.access_order
       IN  /\ Cardinality(keys2) <= lru'.max_size
           /\ Len(order2) = Cardinality(keys2)
           /\ {order2[i] : i \in 1 .. Len(order2)} = keys2
           /\ (/\ lru'.op.name = "put"
               /\ lru'.op.key \notin keys
               /\ Cardinality(keys) = lru.max_size)
              => keys2 = (keys \ {LeastRecentlyUsed(lru)}) \cup {lru'.op.key}
           /\ lru'.op.name = "put" => lru'.c.cache[lru'.op.key] = lru'.puts[lru'.op.key]
           /\ lru'.op.name = "get"
              => /\ keys2 = keys
                 /\ lru'.c.cache = lru.c.cache
                 /\ lru'.op.result = IF lru'.op.key \in keys
                                      THEN lru.puts[lru'.op.key] ELSE 0]_vars

(* A put of a new key into a full cache of two evicted a key, and the key  *)
(* it kept was used before.                                                *)
C38_Witness ==
    /\ lru.op.name = "put"
    /\ lru.max_size = 2
    /\ lru.op.evicted # {}
    /\ Len(lru.c.access_order) = 2
    /\ lru.c.access_order[2] = lru.op.key
    /\ lru.used[lru.c.access_order[1]] >= 3

(* An event satisfies every criterion of the filters that is given. *)
Satisfies(event, filters) ==
    /\ filters.services # {} => event.service \in filters.services
    /\ filters.level # "" => event.level = filters.level
    /\ filters.search # "" => IsSubstring(lower(filters.search), lower(event.message))
    /\ filters.since # 0 => Timestamp(event) >= filters.since

(* The buffered events that satisfy the filters, in buffer order *)
Matching(buffer, filters) ==
    LET test(event) == Satisfies(event, filters)
    IN  SelectSeq(buffer, test)

(* C39: the answer to a get_logs request is the buffered events that       *)
(* satisfy every given criterion, in buffer order, the most recent         *)
(* ReplayLimit of them, and the ring buffer and the drop counter stay.     *)
C39_FilteredSnapshot ==
    [][\A v \in Viewers :
          (/\ view[v].inbox # <<>>
           /\ view'[v].inbox = Tail(view[v].inbox)
           /\ Head(view[v].inbox).type = "get_logs")
          => /\ view'[v].received =
                    view[v].received
                    \o SentAll("logs",
                               RecentEvents(Matching(event_buffer,
                                                     Head(view[v].inbox).filters)))
             /\ event_buffer' = event_buffer
             /\ dropped_events' = dropped_events]_vars

(* The ports try_become_hub(host, base_port) probes *)
ProbedPorts(base_port) == base_port .. (base_port + PortRange - 1)

(* C40: the port a successful try_become_hub keeps is the lowest port of   *)
(* [base_port, base_port + 20) that can be bound when it is probed, the    *)
(* descriptor file after its write holds a descriptor with that port, the  *)
(* pid and the host of the caller, and that port is the one returned.      *)
C40_PortSelection ==
    [][\A p \in Procs :
          /\ (pc[p] = "find_port" /\ pc'[p] = "save_open")
             => /\ el'[p].port \in ProbedPorts(cfg[p].base_port)
                /\ CanBind(el'[p].port)
                /\ \A port \in ProbedPorts(cfg[p].base_port) :
                      port < el'[p].port => ~CanBind(port)
          /\ (pc[p] = "save_write" /\ pc'[p] = "release")
             => /\ desc'.kind = "json"
                /\ desc'.port = el[p].port
                /\ desc'.pid = p
                /\ desc'.host = cfg[p].host
          /\ (pc[p] \in {"save_open", "save_write", "release"} /\ el[p].port # 0)
             => el'[p].port = el[p].port]_vars

====
